---------------------------- MODULE Spec2Model ----------------------------
(***************************************************************************)
(* Model of the OpenPricev7 pricing pipeline:                              *)
(*   - the prepayment-penalty (PPP) classifier and its three copies,       *)
(*   - parseSOAPResponse's program assembly and sort,                      *)
(*   - the request handler's eligibility/penalty filter and adjustment     *)
(*     sanitizer/rewriter,                                                 *)
(*   - PricingLogic's getTargetPricing.                                    *)
(* Text is a sequence of one-character strings, so that toUpperCase,       *)
(* includes and the regular expressions are computed, not assumed.         *)
(* Numbers with decimals are integers in thousandths (1.312 is 1312).      *)
(***************************************************************************)
EXTENDS Integers, Sequences, FiniteSets, TLC

VARIABLES
    pc,             \* position of the operation under check
    text,           \* argument of the PPP classifier
    ppp,            \* results of the three classifier copies
    programs,       \* getTargetPricing: the programs argument
    occupancyType,  \* getTargetPricing: the occupancyType argument
    prepayPeriod,   \* getTargetPricing: the prepayPeriod argument
    targetOption,   \* getTargetPricing: the returned target, or None
    formData,       \* handler: the request body (req.body)
    engine,         \* handler: what the OAuth and pricing endpoints answer
    result,         \* handler: parseSOAPResponse's result object (mutated in place)
    response,       \* handler: the payload passed to res.json
    cachedToken,    \* getOAuthToken: the module-level cache, None or Some(pair)
    now,            \* getOAuthToken: Date.now(), in milliseconds
    calls           \* getOAuthToken: the calls in progress, each with its position;
                    \* handler: the requests it sent, in order

oauthVars == <<cachedToken, now, calls>>

vars == <<pc, text, ppp, programs, occupancyType, prepayPeriod, targetOption,
          formData, engine, result, response, cachedToken, now, calls>>

Null == "null"      \* an idle variable

\* A value that may be null or undefined is a sequence: <<>> is null, <<v>> is v.
\* getTargetPricing's closestDistance is <<>> while it is Infinity.
None == <<>>
Some(v) == <<v>>

\* getOAuthToken is not called: its state stays as the module is loaded
OAuthIdle == cachedToken = None /\ now = 0 /\ calls = <<>>

----------------------------------------------------------------------------
(* Bounds of the model *)

MaxTokens == 4      \* classifier texts are made of at most this many tokens
MaxOptions == 2     \* rate options in one program list of the selector
MaxRateOptions == 3 \* rate options in the engine's answer to one request
MaxAdjustments == 2 \* adjustments in one adjustment list of the answer
MaxEscapeTokens == 4 \* tokens of a text that is escaped and unescaped
MaxItems == 3       \* adjustment items in one block of the adjustments table
MaxParsedOptions == 3 \* rate options in the body of one parsed <Program>
MaxCalls == 2       \* calls of getOAuthToken in one process
MaxTicks == 2       \* seconds the clock advances while the calls run
MaxAttrs == 3       \* attributes of the tag handed to getAttr

----------------------------------------------------------------------------
(* Text: String.prototype.toUpperCase, String.prototype.includes *)

Letters == <<"a","b","c","d","e","f","g","h","i","j","k","l","m",
             "n","o","p","q","r","s","t","u","v","w","x","y","z">>
Capitals == <<"A","B","C","D","E","F","G","H","I","J","K","L","M",
              "N","O","P","Q","R","S","T","U","V","W","X","Y","Z">>

UpperOf == [c \in {Letters[i] : i \in 1..26} |->
               Capitals[CHOOSE i \in 1..26 : Letters[i] = c]]

UpperChar(c) == IF c \in DOMAIN UpperOf THEN UpperOf[c] ELSE c

ToUpperCase(s) == [i \in 1..Len(s) |-> UpperChar(s[i])]

\* s.startsWith(t, i - 1): t occurs in s at (1-based) position i
OccursAt(s, t, i) ==
    /\ i >= 1
    /\ i + Len(t) - 1 <= Len(s)
    /\ \A k \in 1..Len(t) : s[i + k - 1] = t[k]

Includes(s, t) == \E i \in 1..(Len(s) + 1) : OccursAt(s, t, i)

Digits == {"0","1","2","3","4","5","6","7","8","9"}
WhiteSpace == {" ", "\t"}

\* the least position >= i of s that holds no character of class
RECURSIVE SkipClass(_, _, _)
SkipClass(s, i, class) ==
    IF i <= Len(s) /\ s[i] \in class THEN SkipClass(s, i + 1, class) ELSE i

----------------------------------------------------------------------------
(* Words the program's string literals are made of *)

SP   == <<" ">>
TAB  == <<"\t">>
YR   == <<"Y","R">>
MO   == <<"M","O">>
PPP  == <<"P","P","P">>
DSCR == <<"D","S","C","R">>
CASHOUT == <<"C","A","S","H","O","U","T">>

Lit0MOPPP == <<"0">> \o MO \o SP \o PPP          \* '0MO PPP'
Lit0_YRPPP == <<"0">> \o SP \o YR \o SP \o PPP   \* '0 YR PPP'
Lit0YRPPP == <<"0">> \o YR \o SP \o PPP          \* '0YR PPP'
Lit_PPP == SP \o PPP                             \* ' PPP'
LitYRPPP == YR \o SP \o PPP                      \* 'YR PPP'

----------------------------------------------------------------------------
(* The PPP classifier *)

\* /\d\s*YR\s*PPP/i.test(upper): a digit at i, then \s*, YR, \s*, PPP.  The
\* pieces are disjoint character classes, so the greedy \s* never backtracks.
RegexDigitYRPPPAt(s, i) ==
    /\ i <= Len(s)
    /\ s[i] \in Digits
    /\ LET j == SkipClass(s, i + 1, WhiteSpace) IN
       /\ OccursAt(ToUpperCase(s), YR, j)
       /\ LET k == SkipClass(s, j + 2, WhiteSpace) IN
          OccursAt(ToUpperCase(s), PPP, k)

RegexDigitYRPPP(s) == \E i \in 1..Len(s) : RegexDigitYRPPPAt(s, i)

ZeroPeriod(upper) ==
    \/ Includes(upper, Lit0MOPPP)
    \/ Includes(upper, Lit0_YRPPP)
    \/ Includes(upper, Lit0YRPPP)

PenaltyMarker(upper) ==
    \/ Includes(upper, Lit_PPP)
    \/ Includes(upper, LitYRPPP)
    \/ RegexDigitYRPPP(upper)

\* mutant of hasPPP: the zero-period exemption is forgotten
hasPPP_NoZeroExemption(t) ==
    IF t = <<>> THEN FALSE ELSE PenaltyMarker(ToUpperCase(t))

\* handler's local hasPPP
hasPPP(t) ==
    IF t = <<>> THEN FALSE
    ELSE LET upper == ToUpperCase(t) IN
         IF ZeroPeriod(upper) THEN FALSE ELSE PenaltyMarker(upper)

\* PricingLogic.hasPPPInName
hasPPPInName(t) ==
    LET upper == ToUpperCase(t) IN
    IF ZeroPeriod(upper) THEN FALSE ELSE PenaltyMarker(upper)

\* the form component's local hasPPPInName
formHasPPPInName(t) ==
    LET upper == ToUpperCase(t) IN
    IF ZeroPeriod(upper) THEN FALSE ELSE PenaltyMarker(upper)

----------------------------------------------------------------------------
(* Classifier inputs: every concatenation of at most MaxTokens tokens, and  *)
(* the descriptions the specification names                                 *)

Tokens == { <<"0">>, <<"2">>, SP, TAB, YR, <<"y","r">>, MO, PPP, <<"p","p","p">>, <<"X">> }

RECURSIVE TokenTexts(_)
TokenTexts(n) ==
    IF n = 0 THEN { <<>> }
    ELSE LET shorter == TokenTexts(n - 1) IN
         shorter \cup { s \o t : s \in shorter, t \in Tokens }

Txt30yrFixed == SP \o <<"3","0","y","r">> \o SP \o <<"F","i","x","e","d">>
Desc2YRPPP == <<"2">> \o SP \o YR \o SP \o PPP \o Txt30yrFixed   \* "2 YR PPP 30yr Fixed"
Desc0YRPPP == <<"0">> \o SP \o YR \o SP \o PPP \o Txt30yrFixed   \* "0 YR PPP 30yr Fixed"
Desc0MOPPP == Lit0MOPPP                                          \* "0MO PPP"
Desc60MOPPP == <<"6">> \o Lit0MOPPP                              \* "60MO PPP"
Desc10YRPPP == <<"1">> \o Lit0_YRPPP                             \* "10 YR PPP"
Desc10YRPPPTight == <<"1">> \o Lit0YRPPP                         \* "10YR PPP"
DescPlain == <<"3","0","Y","R">> \o SP \o <<"F","I","X","E","D">>  \* "30YR FIXED"

NamedTexts == { Desc2YRPPP, Desc0YRPPP, Desc0MOPPP, Desc60MOPPP, Desc10YRPPP,
                Desc10YRPPPTight, DescPlain }

ClassifierTexts == TokenTexts(MaxTokens) \cup NamedTexts

----------------------------------------------------------------------------
(* Specification of the classifier: the three copies applied to one text *)

IdleRest ==
    /\ programs = <<>>
    /\ occupancyType = Null
    /\ prepayPeriod = Null
    /\ targetOption = None
    /\ formData = Null
    /\ engine = Null
    /\ result = Null
    /\ response = Null
    /\ OAuthIdle

InitPPP ==
    /\ pc = "classify"
    /\ text \in ClassifierTexts
    /\ ppp = Null
    /\ IdleRest

Classify ==
    /\ pc = "classify"
    /\ ppp' = [handler |-> hasPPP(text),
               logic   |-> hasPPPInName(text),
               form    |-> formHasPPPInName(text)]
    /\ pc' = "classified"
    /\ UNCHANGED oauthVars
    /\ UNCHANGED <<text, programs, occupancyType, prepayPeriod, targetOption,
                   formData, engine, result, response>>

NextPPP == Classify

SpecPPP == InitPPP /\ [][NextPPP]_vars

----------------------------------------------------------------------------
(* C3: the classifier returns false for a text that holds, in any case,     *)
(* "0MO PPP", "0 YR PPP" or "0YR PPP"; otherwise it returns true exactly    *)
(* when the text holds " PPP", "YR PPP" or a digit, optional white space,   *)
(* "YR", optional white space, "PPP".  "2 YR PPP 30yr Fixed" is             *)
(* penalty-bearing, "0 YR PPP 30yr Fixed" and "0MO PPP" are not.  The three *)
(* copies agree on every text.                                              *)

\* the upper-cased text holds word w at some position
Holds(s, w) ==
    \E i \in 1..Len(s) :
        /\ i + Len(w) - 1 <= Len(s)
        /\ \A k \in 1..Len(w) : UpperChar(s[i + k - 1]) = w[k]

\* digit, a white-space characters, YR, b white-space characters, PPP
HoldsDigitYRPPP(s) ==
    \E i \in 1..Len(s) : \E a \in 0..Len(s) : \E b \in 0..Len(s) :
        /\ i + a + b + 5 <= Len(s)
        /\ s[i] \in Digits
        /\ \A k \in 1..a : s[i + k] \in WhiteSpace
        /\ UpperChar(s[i + a + 1]) = "Y"
        /\ UpperChar(s[i + a + 2]) = "R"
        /\ \A k \in 1..b : s[i + a + 2 + k] \in WhiteSpace
        /\ UpperChar(s[i + a + b + 3]) = "P"
        /\ UpperChar(s[i + a + b + 4]) = "P"
        /\ UpperChar(s[i + a + b + 5]) = "P"

RulePenalty(s) ==
    /\ ~ (Holds(s, Lit0MOPPP) \/ Holds(s, Lit0_YRPPP) \/ Holds(s, Lit0YRPPP))
    /\ (Holds(s, Lit_PPP) \/ Holds(s, LitYRPPP) \/ HoldsDigitYRPPP(s))

C3_ClassifierRule ==
    pc = "classified" =>
        /\ ppp.handler = RulePenalty(text)
        /\ ppp.logic = ppp.handler
        /\ ppp.form = ppp.handler
        /\ (text = Desc2YRPPP => ppp.handler)
        /\ (text \in {Desc0YRPPP, Desc0MOPPP} => ~ ppp.handler)

\* a zero-period text that would otherwise be a penalty has been classified
C3_Witness ==
    /\ pc = "classified"
    /\ text = Desc0YRPPP
    /\ ~ ppp.handler /\ ~ ppp.logic /\ ~ ppp.form
    /\ PenaltyMarker(ToUpperCase(text))

----------------------------------------------------------------------------
(* PricingLogic: safeNumber, getPPPPattern, isPPPAllowed, getTargetPricing  *)

MinPrice == 99000       \* 99.0, in thousandths
MaxPrice == 101000      \* 101.0
Par == 100000           \* 100

\* mutant of Closer: a later option at the same distance replaces the earlier
Closer_OrEqual(distance, closestDistance) ==
    closestDistance = None \/ distance <= closestDistance[1]

\* distance < closestDistance, closestDistance starting at Infinity
Closer(distance, closestDistance) ==
    closestDistance = None \/ distance < closestDistance[1]

Abs(n) == IF n < 0 THEN -n ELSE n

safeNumber(value, fallback) == IF value \in Int THEN value ELSE fallback

Label(d) == <<d>> \o SP \o YR \o SP \o PPP      \* '<d> YR PPP'

getPPPPattern(period) ==
    CASE period = "5year" -> Label("5")
      [] period = "4year" -> Label("4")
      [] period = "3year" -> Label("3")
      [] period = "2year" -> Label("2")
      [] period = "1year" -> Label("1")
      [] period = "0year" -> Label("0")
      [] OTHER -> Label("3")

isPPPAllowed(occ) == occ = "investment"

\* String.prototype.replace with a string pattern: the first occurrence only
ReplaceFirst(s, pat, rep) ==
    IF ~ Includes(s, pat) THEN s
    ELSE LET i == CHOOSE i \in 1..Len(s) :
                      /\ OccursAt(s, pat, i)
                      /\ \A j \in 1..(i - 1) : ~ OccursAt(s, pat, j)
         IN SubSeq(s, 1, i - 1) \o rep \o SubSeq(s, i + Len(pat), Len(s))

\* a || b on strings: the empty string is falsy
OrElse(a, b) == IF a # <<>> THEN a ELSE b

Unknown == <<"U","n","k","n","o","w","n">>

\* every (program name, rate option) pair in forEach order
RECURSIVE FlattenOptions(_)
FlattenOptions(progs) ==
    IF progs = <<>> THEN <<>>
    ELSE LET p == Head(progs) IN
         [i \in 1..Len(p.rateOptions) |->
             [programName |-> OrElse(p.name, Unknown), opt |-> p.rateOptions[i]]]
         \o FlattenOptions(Tail(progs))

matchesPPP(desc, selectedPPP) ==
    \/ Includes(desc, ToUpperCase(selectedPPP))
    \/ Includes(desc, ToUpperCase(ReplaceFirst(selectedPPP, SP \o YR \o SP, YR \o SP)))

\* mutant of SkipsOption: the fallback pass forgets the penalty rule
SkipsOption_FallbackUnfiltered(desc, pass, pppAllowed, selectedPPP) ==
    \/ pass = 1 /\ ~ pppAllowed /\ hasPPPInName(desc)
    \/ pass = 1 /\ pppAllowed /\ ~ matchesPPP(desc, selectedPPP)

\* mutant of SkipsOption: the label is not required in the first pass
SkipsOption_NoLabel(desc, pass, pppAllowed, selectedPPP) ==
    ~ pppAllowed /\ hasPPPInName(desc)

\* the early returns of the forEach callback, in pass 1 and in the fallback
SkipsOption(desc, pass, pppAllowed, selectedPPP) ==
    \/ ~ pppAllowed /\ hasPPPInName(desc)
    \/ pass = 1 /\ pppAllowed /\ ~ matchesPPP(desc, selectedPPP)

\* the body of the inner forEach callback
ScanOption(acc, item, pass, pppAllowed, selectedPPP) ==
    LET desc == ToUpperCase(OrElse(item.opt.description, item.programName)) IN
    IF SkipsOption(desc, pass, pppAllowed, selectedPPP) THEN acc
    ELSE LET points == safeNumber(item.opt.points, 0)
             price == Par - points
         IN IF price >= MinPrice /\ price <= MaxPrice
            THEN LET distance == Abs(price - Par) IN
                 IF Closer(distance, acc.closestDistance)
                 THEN [closestDistance |-> Some(distance),
                       targetOption |-> Some(
                           [rate |-> safeNumber(item.opt.rate, 0),
                            points |-> points,
                            apr |-> safeNumber(item.opt.apr, 0),
                            price |-> price,
                            payment |-> safeNumber(item.opt.payment, 0),
                            programName |-> OrElse(item.opt.description, item.programName),
                            adjustments |-> item.opt.adjustments])]
                 ELSE acc
            ELSE acc

RECURSIVE ScanPass(_, _, _, _, _)
ScanPass(acc, items, pass, pppAllowed, selectedPPP) ==
    IF items = <<>> THEN acc
    ELSE ScanPass(ScanOption(acc, Head(items), pass, pppAllowed, selectedPPP),
                  Tail(items), pass, pppAllowed, selectedPPP)

getTargetPricing(progs, occ, period) ==
    LET pppAllowed == isPPPAllowed(occ)
        selectedPPP == IF pppAllowed THEN getPPPPattern(period) ELSE <<>>
        items == FlattenOptions(progs)
        first == ScanPass([closestDistance |-> None, targetOption |-> None],
                          items, 1, pppAllowed, selectedPPP)
    IN IF first.targetOption # None THEN first.targetOption
       ELSE ScanPass(first, items, 2, pppAllowed, selectedPPP).targetOption

\* the form component's copy: the first pass looks for the five-year labels
formMatchesPPP(desc) ==
    \/ Includes(desc, Label("5"))
    \/ Includes(desc, <<"5">> \o YR \o SP \o PPP)
    \/ Includes(desc, <<"6">> \o Lit0MOPPP)

\* the early returns of the form's forEach callbacks
formSkipsOption(desc, pass, pppAllowed) ==
    \/ ~ pppAllowed /\ formHasPPPInName(desc)
    \/ pass = 1 /\ pppAllowed /\ ~ formMatchesPPP(desc)

\* the body of the form's inner forEach callback
formScanOption(acc, item, pass, pppAllowed) ==
    LET desc == ToUpperCase(OrElse(item.opt.description, item.programName)) IN
    IF formSkipsOption(desc, pass, pppAllowed) THEN acc
    ELSE LET points == safeNumber(item.opt.points, 0)
             price == Par - points
         IN IF price >= MinPrice /\ price <= MaxPrice
            THEN LET distance == Abs(price - Par) IN
                 IF Closer(distance, acc.closestDistance)
                 THEN [closestDistance |-> Some(distance),
                       targetOption |-> Some(
                           [rate |-> safeNumber(item.opt.rate, 0),
                            points |-> points,
                            apr |-> safeNumber(item.opt.apr, 0),
                            price |-> price,
                            payment |-> safeNumber(item.opt.payment, 0),
                            programName |-> OrElse(item.opt.description, item.programName),
                            adjustments |-> item.opt.adjustments])]
                 ELSE acc
            ELSE acc

RECURSIVE formScanPass(_, _, _, _)
formScanPass(acc, items, pass, pppAllowed) ==
    IF items = <<>> THEN acc
    ELSE formScanPass(formScanOption(acc, Head(items), pass, pppAllowed),
                      Tail(items), pass, pppAllowed)

\* the form component's getTargetPricing on result.programs and
\* formData.occupancyType
formGetTargetPricing(progs, occ) ==
    LET pppAllowed == occ = "investment"
        items == FlattenOptions(progs)
        first == formScanPass([closestDistance |-> None, targetOption |-> None],
                              items, 1, pppAllowed)
    IN IF first.targetOption # None THEN first.targetOption
       ELSE formScanPass(first, items, 2, pppAllowed).targetOption

----------------------------------------------------------------------------
(* Specification of getTargetPricing: the selector applied to one program   *)
(* list.  Points are in thousandths: 1200 is price 98.8, -200 is 100.2.     *)

\* all sequences over S of length lo..hi
SeqsOf(S, lo, hi) == UNION { [1..n -> S] : n \in lo..hi }

Desc3YRPPPTight == <<"3","y","r">> \o SP \o <<"p","p","p">> \o Txt30yrFixed   \* "3yr ppp 30yr Fixed"
NamePlain == <<"N","O","N","Q","M">>                            \* "NONQM"
Name3YRPPP == DSCR \o SP \o Label("3")                          \* "DSCR 3 YR PPP"

TargetDescriptions == { <<>>, DescPlain, Desc2YRPPP, Desc3YRPPPTight }
TargetNames == { NamePlain, Name3YRPPP }
TargetPoints == { 1200, 500, 200, -200 }
PrepayPeriods == { "2year", "none" }

TargetCores == [description : TargetDescriptions, points : TargetPoints]

\* at most MaxOptions rate options, the first `split` of them in the first
\* program and the others in the second
TargetShape(cores, split, names) ==
    << [name |-> names[1], cores |-> SubSeq(cores, 1, split)],
       [name |-> names[2], cores |-> SubSeq(cores, split + 1, Len(cores))] >>

\* rate options before this program in the list: the options of a list carry
\* pairwise different rates, so that the rate tells which option was chosen
RECURSIVE OptionsBefore(_, _)
OptionsBefore(shape, i) ==
    IF i <= 1 THEN 0 ELSE OptionsBefore(shape, i - 1) + Len(shape[i - 1].cores)

RateAt(n) == 4000 + 125 * n

TargetPrograms(shape) ==
    [i \in 1..Len(shape) |->
        [name |-> shape[i].name,
         rateOptions |->
            [k \in 1..Len(shape[i].cores) |->
                [description |-> shape[i].cores[k].description,
                 points |-> shape[i].cores[k].points,
                 rate |-> RateAt(OptionsBefore(shape, i) + k),
                 apr |-> RateAt(OptionsBefore(shape, i) + k) + 100,
                 payment |-> 2000,
                 adjustments |-> <<>>]]]]

\* the specification's example: prices 98.8, 99.5, 100.2, 101.3, no penalty
ExampleShape ==
    << [name |-> NamePlain,
        cores |-> << [description |-> DescPlain, points |-> 1200],
                     [description |-> DescPlain, points |-> 500],
                     [description |-> DescPlain, points |-> -200],
                     [description |-> DescPlain, points |-> -1300] >>] >>

\* prices at the edges of the band, 99.0 and 101.0, and just outside it
EdgeShape ==
    << [name |-> NamePlain,
        cores |-> << [description |-> DescPlain, points |-> 1001],
                     [description |-> DescPlain, points |-> -1000] >>],
       [name |-> Name3YRPPP,
        cores |-> << [description |-> DescPlain, points |-> 1000],
                     [description |-> Desc2YRPPP, points |-> 0] >>] >>

NamedShapes == { ExampleShape, EdgeShape }

\* the program lists and the scenarios the selector is applied to
TargetInputs ==
    /\ \/ \E cores \in SeqsOf(TargetCores, 0, MaxOptions) :
          \E split \in 0..Len(cores) : \E names \in TargetNames \X TargetNames :
              programs = TargetPrograms(TargetShape(cores, split, names))
       \/ \E shape \in NamedShapes : programs = TargetPrograms(shape)
    /\ \/ occupancyType \in {"primary", "secondary"} /\ prepayPeriod = "none"
       \/ occupancyType = "investment" /\ prepayPeriod \in PrepayPeriods
    /\ targetOption = None
    /\ text = <<>>
    /\ ppp = Null
    /\ formData = Null
    /\ engine = Null
    /\ result = Null
    /\ response = Null
    /\ OAuthIdle

InitTarget ==
    /\ pc = "select"
    /\ TargetInputs

SelectTarget ==
    /\ pc = "select"
    /\ targetOption' = getTargetPricing(programs, occupancyType, prepayPeriod)
    /\ pc' = "selected"
    /\ UNCHANGED oauthVars
    /\ UNCHANGED <<text, ppp, programs, occupancyType, prepayPeriod,
                   formData, engine, result, response>>

NextTarget == SelectTarget

SpecTarget == InitTarget /\ [][NextTarget]_vars

----------------------------------------------------------------------------
(* Claims about getTargetPricing.  They are stated over the scanned items   *)
(* and a selection rule written as a minimum, not as the scan.              *)

Items == FlattenOptions(programs)

ItemPrice(i) == 100000 - Items[i].opt.points
InBand(i) == ItemPrice(i) >= 99000 /\ ItemPrice(i) <= 101000
ItemDistance(i) == Abs(ItemPrice(i) - 100000)

\* the text the selector reads for an option: its description, or the name
\* of its program when the description is empty
EffectiveDescription(i) ==
    IF Items[i].opt.description # <<>> THEN Items[i].opt.description
    ELSE Items[i].programName

\* the member of S closest to par, the first one among equals
Best(S) ==
    CHOOSE i \in S : \A j \in S :
        \/ ItemDistance(i) < ItemDistance(j)
        \/ ItemDistance(i) = ItemDistance(j) /\ i <= j

\* the returned target is built from item i
TargetIs(i) ==
    /\ targetOption # None
    /\ targetOption[1].rate = Items[i].opt.rate
    /\ targetOption[1].points = Items[i].opt.points
    /\ targetOption[1].price = ItemPrice(i)
    /\ targetOption[1].programName = EffectiveDescription(i)

SelectionIs(S) ==
    IF S = {} THEN targetOption = None ELSE TargetIs(Best(S))

\* C4 as stated: for a non-investment scenario the selector returns null
\* exactly when no rate option whose description is not penalty-bearing has a
\* price in [99.0, 101.0]; otherwise it returns the closest to 100 of them,
\* the first one among equals.
C4_Original ==
    (pc = "selected" /\ occupancyType # "investment") =>
        SelectionIs({ i \in 1..Len(Items) :
                        InBand(i) /\ ~ RulePenalty(Items[i].opt.description) })

\* C4 amended: the same, with penalty-bearing judged on the option's
\* description, or on its program's name when the description is empty.  On
\* the prices 98.8, 99.5, 100.2, 101.3 the option at 100.2 is returned.
C4_TargetClosestToPar ==
    (pc = "selected" /\ occupancyType # "investment") =>
        /\ SelectionIs({ i \in 1..Len(Items) :
                           InBand(i) /\ ~ RulePenalty(EffectiveDescription(i)) })
        /\ (programs = TargetPrograms(ExampleShape) =>
                targetOption # None /\ targetOption[1].price = 100200)

\* two options at the same distance from par, the first of them returned
C4_Witness ==
    /\ pc = "selected"
    /\ occupancyType = "primary"
    /\ Len(Items) = 2
    /\ InBand(1) /\ InBand(2)
    /\ ItemPrice(1) # ItemPrice(2)
    /\ ItemDistance(1) = ItemDistance(2)
    /\ TargetIs(1)

\* C5: for a non-investment occupancy type the returned target never comes
\* from a rate option whose description is penalty-bearing, whichever pass
\* found it, and there is no target when every rate option is penalty-bearing.
C5_NoPenaltyTarget ==
    (pc = "selected" /\ occupancyType # "investment") =>
        /\ targetOption # None =>
              /\ ~ RulePenalty(targetOption[1].programName)
              /\ \A i \in 1..Len(Items) :
                    Items[i].opt.rate = targetOption[1].rate =>
                        ~ RulePenalty(Items[i].opt.description)
        /\ (\A i \in 1..Len(Items) : RulePenalty(Items[i].opt.description))
              => targetOption = None

\* only penalty-bearing options, one of them at par distance 0.2: no target
C5_Witness ==
    /\ pc = "selected"
    /\ occupancyType = "secondary"
    /\ Len(Items) = 2
    /\ \A i \in 1..2 : RulePenalty(Items[i].opt.description) /\ InBand(i)
    /\ targetOption = None

ExpectedLabel(period) ==
    CASE period = "5year" -> <<"5"," ","Y","R"," ","P","P","P">>
      [] period = "4year" -> <<"4"," ","Y","R"," ","P","P","P">>
      [] period = "3year" -> <<"3"," ","Y","R"," ","P","P","P">>
      [] period = "2year" -> <<"2"," ","Y","R"," ","P","P","P">>
      [] period = "1year" -> <<"1"," ","Y","R"," ","P","P","P">>
      [] period = "0year" -> <<"0"," ","Y","R"," ","P","P","P">>
      [] OTHER -> <<"3"," ","Y","R"," ","P","P","P">>

\* the label without the space before YR
Tight(label) == <<label[1]>> \o SubSeq(label, 3, Len(label))

CarriesLabel(t) ==
    \/ Holds(t, ExpectedLabel(prepayPeriod))
    \/ Holds(t, Tight(ExpectedLabel(prepayPeriod)))

LabelledSelection(labelled) ==
    LET inBand == { i \in 1..Len(Items) : InBand(i) } IN
    IF labelled \cap inBand # {} THEN TargetIs(Best(labelled \cap inBand))
    ELSE SelectionIs(inBand)

\* C6 as stated: for an investment scenario, if an in-band rate option's
\* description contains the label of the selected prepay period (with or
\* without the space before YR) the target is the closest to 100 of these
\* options; only when there is none is it the closest in-band option.
C6_Original ==
    (pc = "selected" /\ occupancyType = "investment") =>
        LabelledSelection({ i \in 1..Len(Items) :
                              CarriesLabel(Items[i].opt.description) })

\* C6 amended: the same, with the label looked for, in any case of letters,
\* in the option's description, or in its program's name when the description
\* is empty.
C6_LabelFirst ==
    (pc = "selected" /\ occupancyType = "investment") =>
        LabelledSelection({ i \in 1..Len(Items) :
                              CarriesLabel(EffectiveDescription(i)) })

\* a labelled option farther from par than an unlabelled in-band one is chosen
C6_Witness ==
    /\ pc = "selected"
    /\ occupancyType = "investment"
    /\ Len(Items) = 2
    /\ InBand(1) /\ InBand(2)
    /\ ~ CarriesLabel(EffectiveDescription(1))
    /\ CarriesLabel(Items[2].opt.description)
    /\ ItemDistance(2) > ItemDistance(1)
    /\ TargetIs(2)

----------------------------------------------------------------------------
(* parseSOAPResponse: program assembly and sort.  The input is the list of  *)
(* <Program> elements in document order, each with the rate options read    *)
(* from its body; `element` is the position of the element in the document. *)

IsBestPrice(r) == r.bestPrice
IsAvailable(r) == r.status = "Available"

\* mutant of BestOption: the best-price flag is not looked at
BestOption_FirstAvailable(opts) ==
    IF SelectSeq(opts, IsAvailable) # <<>> THEN Some(Head(SelectSeq(opts, IsAvailable)))
    ELSE IF opts # <<>> THEN Some(opts[1])
    ELSE None

\* rateOptions.find(r => r.bestPrice) || rateOptions.find(r => r.status ===
\* 'Available') || rateOptions[0]; None when there is no rate option
BestOption(opts) ==
    IF SelectSeq(opts, IsBestPrice) # <<>> THEN Some(Head(SelectSeq(opts, IsBestPrice)))
    ELSE IF SelectSeq(opts, IsAvailable) # <<>> THEN Some(Head(SelectSeq(opts, IsAvailable)))
    ELSE IF opts # <<>> THEN Some(opts[1])
    ELSE None

\* the object pushed for one <Program> element
AssembleProgram(el) ==
    LET best == BestOption(el.rateOptions)[1] IN
    [element |-> el.element,
     name |-> el.name,
     programName |-> el.name,
     status |-> el.status,
     rate |-> best.rate,
     apr |-> best.apr,
     points |-> best.points,
     payment |-> best.payment,
     description |-> best.description,
     rateOptions |-> el.rateOptions]

\* if (programName && bestOption) programs.push(...)
RECURSIVE AssemblePrograms(_)
AssemblePrograms(els) ==
    IF els = <<>> THEN <<>>
    ELSE LET el == Head(els) IN
         (IF el.name # <<>> /\ BestOption(el.rateOptions) # None
          THEN <<AssembleProgram(el)>> ELSE <<>>)
         \o AssemblePrograms(Tail(els))

\* mutant of CompareFn: the eligibility class is not looked at
CompareFn_RateOnly(a, b) == a.rate - b.rate

\* the comparison function handed to programs.sort
CompareFn(a, b) ==
    LET aEligible == IF a.status = "Eligible" THEN 0 ELSE 1
        bEligible == IF b.status = "Eligible" THEN 0 ELSE 1
    IN IF aEligible # bEligible THEN aEligible - bEligible
       ELSE a.rate - b.rate

\* Array.prototype.sort is stable: p goes after the last element that does
\* not compare greater than it
RECURSIVE InsertSorted(_, _)
InsertSorted(sorted, p) ==
    IF sorted = <<>> THEN <<p>>
    ELSE IF CompareFn(Head(sorted), p) <= 0
         THEN <<Head(sorted)>> \o InsertSorted(Tail(sorted), p)
         ELSE <<p>> \o sorted

RECURSIVE SortPrograms(_)
SortPrograms(ps) ==
    IF ps = <<>> THEN <<>>
    ELSE InsertSorted(SortPrograms(SubSeq(ps, 1, Len(ps) - 1)), ps[Len(ps)])

parseSOAPResponse(body) ==
    [programs |-> SortPrograms(AssemblePrograms(body.programs)),
     globalAdjustments |-> body.globalAdjustments]

----------------------------------------------------------------------------
(* handler: normalizeFormData and the scenario flags *)

Spell(word) ==
    CASE word = "purchase"  -> <<"p","u","r","c","h","a","s","e">>
      [] word = "refinance" -> <<"r","e","f","i","n","a","n","c","e">>
      [] word = "cashout"   -> <<"c","a","s","h","o","u","t">>
      [] OTHER -> <<>>

\* String.prototype.toLowerCase, on the words the model spells
ToLowerCase(s) ==
    [i \in 1..Len(s) |->
        IF \E k \in 1..26 : Capitals[k] = s[i]
        THEN Letters[CHOOSE k \in 1..26 : Capitals[k] = s[i]]
        ELSE s[i]]

\* the loanPurpose branch; the request carries none of the synonym fields
\* (fico, zipCode, state, purchasePrice, occupancy, incomeDocType)
normalizeFormData(data) ==
    IF data.loanPurpose = "" THEN data
    ELSE LET purp == ToLowerCase(Spell(data.loanPurpose)) IN
         IF Includes(purp, Spell("purchase")) THEN [data EXCEPT !.loanPurpose = "purchase"]
         ELSE IF Includes(purp, <<"r","e","f","i">>) THEN [data EXCEPT !.loanPurpose = "refinance"]
         ELSE IF Includes(purp, <<"c","a","s","h">>) THEN [data EXCEPT !.loanPurpose = "cashout"]
         ELSE data

\* mutant of isDSCRRequest: the request is always taken for a DSCR request
isDSCRRequest_Always(fd) == TRUE

\* mutant of isDSCRRequest: only the documentation type is looked at
isDSCRRequest_DocTypeOnly(fd) ==
    (IF fd.documentationType = "" THEN "fullDoc" ELSE fd.documentationType) = "dscr"

isDSCRRequest(fd) ==
    LET docType == IF fd.documentationType = "" THEN "fullDoc" ELSE fd.documentationType
        loanType == IF fd.loanType = "" THEN "nonqm" ELSE fd.loanType
    IN docType = "dscr" \/ loanType = "dscr"

\* delete formData.dscrRatio when the request is not a DSCR request
StripDSCRFields(fd) ==
    IF ~ isDSCRRequest(fd) THEN [fd EXCEPT !.dscrRatio = <<>>] ELSE fd

----------------------------------------------------------------------------
(* handler: the eligibility and penalty filter.  result.programs is a list  *)
(* of objects; eligiblePrograms holds references to them, here positions in *)
(* result.programs, and the filter callback assigns p.rateOptions in place. *)

\* Array.prototype.filter is SelectSeq

\* mutant of KeepsRateOption: the rate options are not filtered
KeepsRateOption_All(ro) == TRUE

KeepsRateOption(ro) == ~ hasPPP(ro.description)

\* mutant of ReachesRateOptions: the description of the program is not
\* looked at
ReachesRateOptions_NameOnly(p) == ~ (hasPPP(p.programName) \/ hasPPP(p.name))

\* the callback passes the name and description checks and reaches the
\* assignment of p.rateOptions
ReachesRateOptions(p) ==
    ~ (hasPPP(p.programName) \/ hasPPP(p.name)) /\ ~ hasPPP(p.description)

\* the value the filter callback returns for p
PenaltyCallbackKeeps(p) ==
    /\ ReachesRateOptions(p)
    /\ SelectSeq(p.rateOptions, KeepsRateOption) # <<>>

\* mutant of AfterPenaltyCallback: the rate options are assigned before the
\* name and the description are looked at
AfterPenaltyCallback_AssignsFirst(p) ==
    [p EXCEPT !.rateOptions = SelectSeq(p.rateOptions, KeepsRateOption)]

\* p after the callback ran on it
AfterPenaltyCallback(p) ==
    IF ReachesRateOptions(p)
    THEN [p EXCEPT !.rateOptions = SelectSeq(p.rateOptions, KeepsRateOption)]
    ELSE p

\* mutant of IsEligibleStatus: the status is compared without regard to case
IsEligibleStatus_AnyCase(status) == status \in {"Eligible", "eligible", "ELIGIBLE"}

IsEligibleStatus(status) == status = "Eligible"

\* positions of the programs in eligiblePrograms, in order
EligiblePositions(progs, isInvestment) ==
    LET all == [i \in 1..Len(progs) |-> i]
        Eligible(i) == IsEligibleStatus(progs[i].status)
        Kept(i) == PenaltyCallbackKeeps(progs[i])
        first == SelectSeq(all, Eligible)
    IN IF isInvestment THEN first ELSE SelectSeq(first, Kept)

\* result.programs after the filter
ProgramsAfterFilter(progs, isInvestment) ==
    [i \in 1..Len(progs) |->
        IF ~ isInvestment /\ IsEligibleStatus(progs[i].status)
        THEN AfterPenaltyCallback(progs[i])
        ELSE progs[i]]

----------------------------------------------------------------------------
(* handler: the adjustment sanitizer and the DSCR description rewrite *)

DigitText == <<"0","1","2","3","4","5","6","7","8","9">>

\* the decimal digits of a natural number
RECURSIVE NatText(_)
NatText(n) ==
    IF n < 10 THEN <<DigitText[n + 1]>>
    ELSE NatText(n \div 10) \o <<DigitText[(n % 10) + 1]>>

\* Number.prototype.toFixed(3) of a ratio given in thousandths
ToFixed3(n) ==
    NatText(n \div 1000) \o <<".">> \o
    <<DigitText[((n \div 100) % 10) + 1],
      DigitText[((n \div 10) % 10) + 1],
      DigitText[(n % 10) + 1]>>

\* isDSCRRequest && formData.dscrValue ? parseFloat(dscrValue).toFixed(3) : null
actualDSCRValue(fd) ==
    IF isDSCRRequest(fd) /\ fd.dscrValue # 0 THEN Some(ToFixed3(fd.dscrValue)) ELSE None

\* isDSCRRequest ? (formData.dscrRatio || null) : null
actualDSCRTier(fd) == IF isDSCRRequest(fd) THEN fd.dscrRatio ELSE <<>>

NotAvailable == <<"N","/","A">>

\* /DSCR:\s*DSCR\s*>=?\s*[\d.]+/i matched at position i of s: the position
\* after the match, or 0 when there is no match at i
DSCRThresholdEnd(s, i) ==
    LET upper == ToUpperCase(s)
        a == SkipClass(s, i + 5, WhiteSpace)
        b == SkipClass(s, a + 4, WhiteSpace)
        c == IF b + 1 <= Len(s) /\ s[b + 1] = "=" THEN b + 2 ELSE b + 1
        d == SkipClass(s, c, WhiteSpace)
        e == SkipClass(s, d, Digits \cup {"."})
    IN IF /\ OccursAt(upper, DSCR \o <<":">>, i)
          /\ OccursAt(upper, DSCR, a)
          /\ OccursAt(s, <<">">>, b)
          /\ e > d
       THEN e ELSE 0

\* newDesc.replace(/DSCR:\s*DSCR\s*>=?\s*[\d.]+/i, replacement): the leftmost match
ReplaceDSCRThreshold(s, replacement) ==
    IF \E i \in 1..Len(s) : DSCRThresholdEnd(s, i) # 0
    THEN LET i == CHOOSE i \in 1..Len(s) :
                      /\ DSCRThresholdEnd(s, i) # 0
                      /\ \A j \in 1..(i - 1) : DSCRThresholdEnd(s, j) = 0
         IN SubSeq(s, 1, i - 1) \o replacement
                \o SubSeq(s, DSCRThresholdEnd(s, i), Len(s))
    ELSE s

\* `DSCR: ${actualDSCRValue} (${actualDSCRTier || 'N/A'})`
DSCRReplacement(fd) ==
    DSCR \o <<":", " ">> \o actualDSCRValue(fd)[1] \o <<" ", "(">>
         \o OrElse(actualDSCRTier(fd), NotAvailable) \o <<")">>

\* mutant of KeepsAdjustment: CASHOUT lines are dropped for every refinance,
\* cash-out included
KeepsAdjustment_CashoutToo(adj, fd) ==
    LET desc == ToUpperCase(adj.description) IN
    /\ ~ (~ isDSCRRequest(fd) /\ Includes(desc, DSCR))
    /\ ~ (fd.loanPurpose \in {"refinance", "cashout"} /\ Includes(desc, CASHOUT))

\* the filter callback on a rate option's adjustments
KeepsAdjustment(adj, fd) ==
    LET desc == ToUpperCase(adj.description) IN
    /\ ~ (~ isDSCRRequest(fd) /\ Includes(desc, DSCR))
    /\ ~ (fd.loanPurpose = "refinance" /\ Includes(desc, CASHOUT))

\* mutant of RewriteAdjustment: the amount is cleared with the description
RewriteAdjustment_ClearsAmount(adj, fd) ==
    IF /\ isDSCRRequest(fd)
       /\ actualDSCRValue(fd) # None
       /\ Includes(ToUpperCase(adj.description), DSCR)
    THEN [adj EXCEPT !.description = ReplaceDSCRThreshold(adj.description, DSCRReplacement(fd)),
                     !.amount = 0]
    ELSE adj

\* the map callback on a rate option's adjustments
RewriteAdjustment(adj, fd) ==
    IF /\ isDSCRRequest(fd)
       /\ actualDSCRValue(fd) # None
       /\ Includes(ToUpperCase(adj.description), DSCR)
    THEN [adj EXCEPT !.description = ReplaceDSCRThreshold(adj.description, DSCRReplacement(fd))]
    ELSE adj

SanitizeAdjustments(adjs, fd) ==
    LET Keep(adj) == KeepsAdjustment(adj, fd)
        kept == SelectSeq(adjs, Keep)
    IN [k \in 1..Len(kept) |-> RewriteAdjustment(kept[k], fd)]

\* eligiblePrograms.forEach(p => p.rateOptions.forEach(ro => ...)): an option
\* without adjustments (undefined, here <<>>) is left alone
SanitizeProgram(p, fd) ==
    [p EXCEPT !.rateOptions =
        [k \in 1..Len(p.rateOptions) |->
            IF p.rateOptions[k].adjustments = <<>> THEN p.rateOptions[k]
            ELSE [p.rateOptions[k] EXCEPT
                     !.adjustments = SanitizeAdjustments(p.rateOptions[k].adjustments, fd)]]]

\* result.programs after the sanitizer ran over eligiblePrograms
ProgramsAfterSanitize(progs, eligible, fd) ==
    [i \in 1..Len(progs) |->
        IF \E k \in 1..Len(eligible) : eligible[k] = i
        THEN SanitizeProgram(progs[i], fd)
        ELSE progs[i]]

\* mutant of KeepsGlobalAdjustment: the global path has no CASHOUT rule
KeepsGlobalAdjustment_NoCashoutRule(adj, fd) ==
    ~ (~ isDSCRRequest(fd) /\ Includes(ToUpperCase(adj.description), DSCR))

\* the filter and map callbacks on result.globalAdjustments
KeepsGlobalAdjustment(adj, fd) ==
    LET desc == ToUpperCase(adj.description) IN
    /\ ~ (~ isDSCRRequest(fd) /\ Includes(desc, DSCR))
    /\ ~ (fd.loanPurpose = "refinance" /\ Includes(desc, CASHOUT))

RewriteGlobalAdjustment(adj, fd) ==
    IF /\ isDSCRRequest(fd)
       /\ actualDSCRValue(fd) # None
       /\ Includes(ToUpperCase(adj.description), DSCR)
    THEN [adj EXCEPT !.description = ReplaceDSCRThreshold(adj.description, DSCRReplacement(fd))]
    ELSE adj

SanitizeGlobalAdjustments(adjs, fd) ==
    LET Keep(adj) == KeepsGlobalAdjustment(adj, fd)
        kept == SelectSeq(adjs, Keep)
    IN [k \in 1..Len(kept) |-> RewriteGlobalAdjustment(kept[k], fd)]

----------------------------------------------------------------------------
(* handler: the responses *)

Failure(httpStatus, message) ==
    [success |-> FALSE, httpStatus |-> httpStatus, error |-> message,
     allPrograms |-> <<>>, data |-> None]

\* the messages of the failures, as texts
TimeoutMessage ==
    <<"T","h","e"," ","o","p","e","r","a","t","i","o","n"," ","w","a","s",
      " ","a","b","o","r","t","e","d"," ","d","u","e"," ","t","o"," ","t",
      "i","m","e","o","u","t">>
OAuthFailedMessage ==
    <<"O","A","u","t","h"," ","t","o","k","e","n"," ","r","e","q","u","e",
      "s","t"," ","f","a","i","l","e","d",":"," ","H","T","T","P"," ","4",
      "0","1">>
PricerFailedMessage ==
    <<"M","e","r","i","d","i","a","n","L","i","n","k"," ","r","e","t","u",
      "r","n","e","d"," ","H","T","T","P"," ","5","0","0">>
NoProgramsMessage ==
    <<"N","o"," ","p","r","o","g","r","a","m","s"," ","f","o","u","n","d",
      "."," ","P","l","e","a","s","e"," ","a","d","j","u","s","t"," ","y",
      "o","u","r"," ","s","c","e","n","a","r","i","o",".">>
UnknownPricingError ==
    <<"U","n","k","n","o","w","n"," ","p","r","i","c","i","n","g"," ","e",
      "r","r","o","r">>

\* mutant of NoProgramsResponse: the response carries no list
NoProgramsResponse_NoList(progs) ==
    [success |-> FALSE, httpStatus |-> 200,
     error |-> NoProgramsMessage,
     allPrograms |-> <<>>,
     data |-> None]

\* the 'No programs found' response, built from result.programs as it is
\* after the filter and the sanitizer
NoProgramsResponse(progs) ==
    [success |-> FALSE, httpStatus |-> 200,
     error |-> NoProgramsMessage,
     allPrograms |->
        [i \in 1..Len(progs) |->
            [programName |-> progs[i].programName,
             status |-> progs[i].status,
             rateOptionsCount |-> Len(progs[i].rateOptions),
             sampleRateDesc |->
                IF progs[i].rateOptions # <<>>
                THEN OrElse(progs[i].rateOptions[1].description, NotAvailable)
                ELSE NotAvailable]],
     data |-> None]

SuccessResponse(progs, eligible, globalAdjustments, fd) ==
    LET eligiblePrograms == [k \in 1..Len(eligible) |-> progs[eligible[k]]]
        topProgram == eligiblePrograms[1]
    IN [success |-> TRUE, httpStatus |-> 200, error |-> <<>>,
        allPrograms |-> <<>>,
        data |-> Some([rate |-> topProgram.rate,
                       apr |-> topProgram.apr,
                       points |-> topProgram.points,
                       programName |-> topProgram.programName,
                       programs |-> eligiblePrograms,
                       totalPrograms |-> Len(eligiblePrograms),
                       globalAdjustments |->
                           SanitizeGlobalAdjustments(globalAdjustments, fd)])]

StatusErrorPlain ==
    <<"s","t","a","t","u","s","=","\"","E","r","r","o","r","\"">>
StatusErrorEscaped ==
    <<"s","t","a","t","u","s","=","&","q","u","o","t",";","E","r","r","o",
      "r","&","q","u","o","t",";">>

\* mutant of HasErrorStatus: only the unescaped form is looked for
HasErrorStatus_PlainOnly(responseText) == Includes(responseText, StatusErrorPlain)

\* responseText.includes('status=&quot;Error&quot;') ||
\* responseText.includes('status="Error"')
HasErrorStatus(responseText) ==
    Includes(responseText, StatusErrorEscaped) \/ Includes(responseText, StatusErrorPlain)

\* /Error[>"']>([^<]+)</ matches at position i
ErrorMatchAt(t, i) ==
    /\ OccursAt(t, <<"E","r","r","o","r">>, i)
    /\ i + 7 <= Len(t)
    /\ t[i + 5] \in {">", "\"", "'"}
    /\ t[i + 6] = ">"
    /\ t[i + 7] # "<"
    /\ \E j \in (i + 8)..Len(t) : t[j] = "<"

\* errorMatch?.[1] || 'Unknown pricing error': the text the leftmost match
\* captures, up to the next <
MlError(t) ==
    IF \E i \in 1..Len(t) : ErrorMatchAt(t, i)
    THEN LET i == CHOOSE i \in 1..Len(t) :
                     ErrorMatchAt(t, i) /\ \A h \in 1..(i - 1) : ~ ErrorMatchAt(t, h)
             j == CHOOSE j \in (i + 8)..Len(t) :
                     t[j] = "<" /\ \A h \in (i + 8)..(j - 1) : t[h] # "<"
         IN SubSeq(t, i + 7, j - 1)
    ELSE UnknownPricingError

\* everything after `const result = parseSOAPResponse(resultXml)`
HandlerOutcome(fd, parsed) ==
    LET isInvestment == fd.occupancyType = "investment"
        eligible == EligiblePositions(parsed.programs, isInvestment)
        filtered == ProgramsAfterFilter(parsed.programs, isInvestment)
        sanitized == ProgramsAfterSanitize(filtered, eligible, fd)
    IN [result |-> [programs |-> sanitized,
                    globalAdjustments |-> parsed.globalAdjustments],
        response |-> IF eligible = <<>> THEN NoProgramsResponse(sanitized)
                     ELSE SuccessResponse(sanitized, eligible,
                                          parsed.globalAdjustments, fd)]

----------------------------------------------------------------------------
(* Specification of the request handler: one POST request against one       *)
(* answer of the pricing engine.  Rates are in thousandths of a percent.    *)

AdjFICO == [description |-> <<"F","I","C","O"," ","7","2","0">>,
            amount |-> -250, rateAdj |-> 0]
AdjDSCRThreshold ==
    [description |-> DSCR \o <<":"," ">> \o DSCR \o <<" ",">","="," ","1",".","2","5">>,
     amount |-> -500, rateAdj |-> 125]
AdjDSCRLow ==
    [description |-> <<"d","s","c","r"," ","<"," ","1",".","0">>,
     amount |-> -750, rateAdj |-> 0]
AdjCashout ==
    [description |-> CASHOUT \o <<" ","L","T","V">>,
     amount |-> -375, rateAdj |-> 0]
AdjDSCRCashout ==
    [description |-> <<"D","s","c","r",":"," ","d","s","c","r",">","1"," ">>
                        \o <<"C","a","s","h","O","u","t">>,
     amount |-> -625, rateAdj |-> 250]

Adjustments == {AdjFICO, AdjDSCRThreshold, AdjDSCRLow, AdjCashout, AdjDSCRCashout}

AdjustmentLists == SeqsOf(Adjustments, 0, MaxAdjustments)

TierAbove125 == <<">","=","1",".","2","5","0">>

\* formData.dscrValue in thousandths (0: not sent) and formData.dscrRatio
DSCRFields == {<<0, <<>>>>, <<1312, TierAbove125>>, <<1312, <<>>>>}

Request(occ, docType, loanType, purpose, dscr) ==
    [occupancyType |-> occ, documentationType |-> docType, loanType |-> loanType,
     loanPurpose |-> purpose, dscrValue |-> dscr[1], dscrRatio |-> dscr[2]]

PlainRequests ==
    {Request(occ, "fullDoc", "nonqm", "purchase", <<0, <<>>>>) :
        occ \in {"primary", "secondary", "investment"}}

SanitizerRequests ==
    {Request(occ, docType, loanType, purpose, dscr) :
        occ \in {"primary", "investment"},
        docType \in {"fullDoc", "dscr"},
        loanType \in {"nonqm", "dscr"},
        purpose \in {"purchase", "refinance", "cashout"},
        dscr \in DSCRFields}

\* one <RateOption>: the k-th of a program whose first option has rate `rate`
RateOptionEl(rate, k, desc, best, adjs) ==
    [rate |-> rate + 125 * (k - 1), points |-> 250 * (k - 1),
     apr |-> rate + 125 * (k - 1) + 50, payment |-> 2000 + k,
     description |-> desc, status |-> "Available", bestPrice |-> best = k,
     adjustments |-> adjs]

\* one <Program> element
ProgramEl(element, name, status, rate, best, descs, adjs) ==
    [element |-> element, name |-> name, status |-> status,
     rateOptions |-> [k \in 1..Len(descs) |->
                         RateOptionEl(rate, k, descs[k], best,
                                      IF k = 1 THEN adjs ELSE <<>>)]]

\* Status attribute and Rate attribute of the first option
StatusRates ==
    {<<"Eligible", 4000>>, <<"Eligible", 5000>>, <<"eligible", 4000>>,
     <<"Ineligible", 3000>>}

\* Name, status and rate, and the position of the option flagged BestPrice
ProgramAttrs == {NamePlain, Name3YRPPP} \X StatusRates \X {0, 2}

OptionDescriptions == {DescPlain, Desc2YRPPP, Desc0YRPPP}

ElementOf(n, attrs, descs) ==
    ProgramEl(n, attrs[1], attrs[2][1], attrs[2][2], attrs[3], descs, <<>>)

\* the rate options descs in one program, or split after `cut` over two
FilterBody(a, b, descs, cut) ==
    [programs |->
        IF cut = Len(descs) THEN <<ElementOf(1, a, descs)>>
        ELSE <<ElementOf(1, a, SubSeq(descs, 1, cut)),
               ElementOf(2, b, SubSeq(descs, cut + 1, Len(descs)))>>,
     globalAdjustments |-> <<>>]

\* statuses [Ineligible, Eligible, Eligible] with rates [3.0, 5.0, 4.0]
ExampleBody ==
    [programs |-> <<ProgramEl(1, NamePlain, "Ineligible", 3000, 0, <<DescPlain>>, <<>>),
                    ProgramEl(2, NamePlain, "Eligible", 5000, 0, <<DescPlain>>, <<>>),
                    ProgramEl(3, NamePlain, "Eligible", 4000, 0, <<DescPlain>>, <<>>)>>,
     globalAdjustments |-> <<>>]

\* one eligible program whose first rate option carries the adjustments,
\* which the adjustments table also lists globally
SanitizerBody(adjs) ==
    [programs |-> <<ProgramEl(1, NamePlain, "Eligible", 4000, 0,
                              <<DescPlain, Desc0YRPPP>>, adjs)>>,
     globalAdjustments |-> adjs]

EmptyBody == [programs |-> <<>>, globalAdjustments |-> <<>>]

\* the start of the result element in the text of the answer
ResultOK ==
    <<"<","R","e","s","u","l","t"," ","s","t","a","t","u","s","=","\"","O",
      "K","\"",">">>
ResultError ==
    <<"<","R","e","s","u","l","t"," ","s","t","a","t","u","s","=","\"","E",
      "r","r","o","r","\"",">","I","n","v","a","l","i","d"," ","l","o","a",
      "n"," ","a","m","o","u","n","t","<","/","R","e","s","u","l","t",">">>
ResultErrorEscaped ==
    <<"&","l","t",";","R","e","s","u","l","t"," ","s","t","a","t","u","s",
      "=","&","q","u","o","t",";","E","r","r","o","r","&","q","u","o","t",
      ";","&","g","t",";","I","n","v","a","l","i","d"," ","l","o","a","n",
      " ","a","m","o","u","n","t","&","l","t",";","/","R","e","s","u","l",
      "t","&","g","t",";">>
ResultErrorEmpty ==
    <<"<","R","e","s","u","l","t"," ","s","t","a","t","u","s","=","\"","E",
      "r","r","o","r","\"","/",">">>
ResultErrorAttribute ==
    <<"<","R","e","s","u","l","t"," ","s","t","a","t","u","s","=","\"","E",
      "r","r","o","r","\""," ","c","o","d","e","=","\"","7","\"",">">>
InvalidLoanAmount ==
    <<"I","n","v","a","l","i","d"," ","l","o","a","n"," ","a","m","o","u",
      "n","t">>

ErrorTexts == {ResultError, ResultErrorEscaped, ResultErrorEmpty, ResultErrorAttribute}

\* an answer: how the token request and the pricing request end, the start
\* of the result element, and the document the answer carries
Answer(oauth, http, responseText, body) ==
    [oauth |-> oauth, http |-> http, responseText |-> responseText, body |-> body]

\* the token request or the pricing request fails
FailedAnswers ==
    {Answer(oauth, "ok", ResultOK, EmptyBody) : oauth \in {"401", "timeout"}}
    \cup {Answer("ok", http, ResultOK, EmptyBody) : http \in {"500", "timeout"}}
    \cup {Answer("ok", "500", ResultError, EmptyBody)}

\* the engine reports an error, with or without programs in the answer
ErrorAnswers == {Answer("ok", "ok", t, body) : t \in ErrorTexts, body \in {EmptyBody, ExampleBody}}

InitHandler ==
    /\ pc = "request"
    /\ text = <<>>
    /\ ppp = Null
    /\ programs = <<>>
    /\ occupancyType = Null
    /\ prepayPeriod = Null
    /\ targetOption = None
    /\ result = None
    /\ response = None
    /\ OAuthIdle
    /\ \/ /\ formData \in PlainRequests
          /\ \E descs \in SeqsOf(OptionDescriptions, 1, MaxRateOptions) :
             \E a \in ProgramAttrs :
                \/ engine = Answer("ok", "ok", ResultOK, FilterBody(a, a, descs, Len(descs)))
                \/ \E b \in ProgramAttrs : \E cut \in 1..(Len(descs) - 1) :
                      engine = Answer("ok", "ok", ResultOK, FilterBody(a, b, descs, cut))
       \/ /\ formData \in PlainRequests
          /\ engine \in {Answer("ok", "ok", ResultOK, ExampleBody),
                         Answer("ok", "ok", ResultOK, EmptyBody)}
       \/ /\ formData \in SanitizerRequests
          /\ \E adjs \in AdjustmentLists :
                engine = Answer("ok", "ok", ResultOK, SanitizerBody(adjs))
       \/ /\ formData \in PlainRequests
          /\ engine \in FailedAnswers \cup ErrorAnswers

\* mutant of RequestsSent: a failed pricing request is sent once more
RequestsSent_Retry(answer) ==
    IF answer.oauth # "ok" THEN <<"oauth">>
    ELSE IF answer.http # "ok" THEN <<"oauth", "pricer", "pricer">>
    ELSE <<"oauth", "pricer">>

\* the requests handler sends: getOAuthToken's, and the pricing request once
\* the token is there
RequestsSent(answer) ==
    IF answer.oauth # "ok" THEN <<"oauth">> ELSE <<"oauth", "pricer">>

\* the body of handler for a POST request
Handler ==
    /\ pc = "request"
    /\ LET fd == StripDSCRFields(normalizeFormData(formData))
           outcome == HandlerOutcome(fd, parseSOAPResponse(engine.body))
       IN IF engine.oauth = "timeout" \/ engine.http = "timeout"
          THEN /\ response' = Failure(500, TimeoutMessage)
               /\ result' = None
          ELSE IF engine.oauth # "ok"
          THEN /\ response' = Failure(500, OAuthFailedMessage)
               /\ result' = None
          ELSE IF engine.http # "ok"
          THEN /\ response' = Failure(200, PricerFailedMessage)
               /\ result' = None
          ELSE IF HasErrorStatus(engine.responseText)
          THEN /\ response' = Failure(200, MlError(engine.responseText))
               /\ result' = None
          ELSE /\ response' = outcome.response
               /\ result' = Some(outcome.result)
    /\ pc' = "responded"
    /\ calls' = RequestsSent(engine)
    /\ UNCHANGED <<cachedToken, now>>
    /\ UNCHANGED <<text, ppp, programs, occupancyType, prepayPeriod, targetOption,
                   formData, engine>>

NextHandler == Handler

SpecHandler == InitHandler /\ [][NextHandler]_vars

\* the request as the handler's filter and sanitizer see it
Scenario == StripDSCRFields(normalizeFormData(formData))

\* the parsed result, before the handler touches it
Parsed == parseSOAPResponse(engine.body)

Succeeded == pc = "responded" /\ response.success

----------------------------------------------------------------------------
(* Claims about the parse order and the handler's filter *)

\* what identifies a program and what the sort looks at
Key(p) == [element |-> p.element, status |-> p.status, rate |-> p.rate]

KeysOf(ps) == [i \in 1..Len(ps) |-> Key(ps[i])]

IsPermutation(a, b) ==
    /\ Len(a) = Len(b)
    /\ \E f \in [1..Len(a) -> 1..Len(a)] :
          /\ \A i, j \in 1..Len(a) : f[i] = f[j] => i = j
          /\ \A i \in 1..Len(a) : a[i] = b[f[i]]

\* C7: the program list of the parsed result has every "Eligible" program
\* before every program of another status, each of the two classes is in
\* ascending order of representative rate, and the list is a permutation of
\* the retained programs; statuses [Ineligible, Eligible, Eligible] with
\* rates [3.0, 5.0, 4.0] come out as Eligible 4.0, Eligible 5.0, Ineligible 3.0.
C7_SortedPrograms ==
    pc = "responded" /\ result # None =>
        LET out == result[1].programs IN
        /\ \A i, j \in 1..Len(out) :
              i < j /\ out[j].status = "Eligible" => out[i].status = "Eligible"
        /\ \A i, j \in 1..Len(out) :
              i < j /\ (out[i].status = "Eligible") = (out[j].status = "Eligible")
                  => out[i].rate <= out[j].rate
        /\ IsPermutation(KeysOf(out), KeysOf(AssemblePrograms(engine.body.programs)))
        /\ (engine.body = ExampleBody =>
               KeysOf(out) = <<[element |-> 3, status |-> "Eligible", rate |-> 4000],
                               [element |-> 2, status |-> "Eligible", rate |-> 5000],
                               [element |-> 1, status |-> "Ineligible", rate |-> 3000]>>)

\* the three programs of the example were parsed and came out reordered
C7_Witness ==
    /\ pc = "responded" /\ result # None
    /\ engine.body = ExampleBody
    /\ Len(result[1].programs) = 3
    /\ result[1].programs[1].element = 3
    /\ result[1].programs[3].element = 1

\* C1: when the occupancy type is not 'investment', no program the filter
\* returns has a name or representative description that the PPP rule
\* classifies penalty-bearing, and no rate option of a returned program has
\* such a description, whatever the order of the parsed list.
C1_NoPenaltyProgram ==
    Succeeded /\ Scenario.occupancyType # "investment" =>
        \A i \in 1..Len(response.data[1].programs) :
            LET p == response.data[1].programs[i] IN
            /\ ~ RulePenalty(p.name)
            /\ ~ RulePenalty(p.programName)
            /\ ~ RulePenalty(p.description)
            /\ \A k \in 1..Len(p.rateOptions) : ~ RulePenalty(p.rateOptions[k].description)

\* a primary-residence request: one program was dropped for its name, the
\* other survives without its penalty-bearing rate option
C1_Witness ==
    /\ Succeeded
    /\ Scenario.occupancyType = "primary"
    /\ \E i \in 1..Len(Parsed.programs) :
          Parsed.programs[i].status = "Eligible" /\ RulePenalty(Parsed.programs[i].name)
    /\ \E i \in 1..Len(response.data[1].programs) :
          LET p == response.data[1].programs[i] IN
          \E j \in 1..Len(Parsed.programs) :
              /\ Parsed.programs[j].element = p.element
              /\ Len(p.rateOptions) < Len(Parsed.programs[j].rateOptions)

\* C2: every program in the programs list of a successful response has
\* status exactly "Eligible" and at least one rate option, for every
\* occupancy type; a program of another status never appears.
C2_EligibleWithOptions ==
    Succeeded =>
        /\ response.data[1].programs # <<>>
        /\ response.data[1].totalPrograms = Len(response.data[1].programs)
        /\ \A i \in 1..Len(response.data[1].programs) :
              /\ response.data[1].programs[i].status = "Eligible"
              /\ Len(response.data[1].programs[i].rateOptions) >= 1
        /\ \A j \in 1..Len(Parsed.programs) :
              Parsed.programs[j].status # "Eligible" =>
                  \A i \in 1..Len(response.data[1].programs) :
                      response.data[1].programs[i].element # Parsed.programs[j].element

\* an investment request answered with one "Eligible" and one "eligible"
\* program: only the first is in the response
C2_Witness ==
    /\ Succeeded
    /\ Scenario.occupancyType = "investment"
    /\ Len(Parsed.programs) = 2
    /\ \E j \in 1..2 : Parsed.programs[j].status = "eligible"
    /\ Len(response.data[1].programs) = 1

----------------------------------------------------------------------------
(* Claims about the adjustment sanitizer.  A rate option of the response is *)
(* compared with the rate option of the parsed result it came from: the one *)
(* with the same rate in the program of the same <Program> element.         *)

ParsedAdjustments(element, rate) ==
    LET q == CHOOSE i \in 1..Len(Parsed.programs) : Parsed.programs[i].element = element
        opts == Parsed.programs[q].rateOptions
        r == CHOOSE k \in 1..Len(opts) : opts[k].rate = rate
    IN opts[r].adjustments

\* the adjustment lists of the response's rate options, after and before
SurvivingLists ==
    LET out == response.data[1].programs IN
    UNION {{[after |-> out[i].rateOptions[k].adjustments,
             before |-> ParsedAdjustments(out[i].element, out[i].rateOptions[k].rate)] :
               k \in 1..Len(out[i].rateOptions)} : i \in 1..Len(out)}

\* amount and rateAdj of each adjustment, in order
KeysOfAdjustments(adjs) ==
    [k \in 1..Len(adjs) |-> [amount |-> adjs[k].amount, rateAdj |-> adjs[k].rateAdj]]

DSCRLabelled(adj) == Holds(adj.description, DSCR)

CashoutLabelled(adj) == Holds(adj.description, CASHOUT)

RewrittenExample ==
    <<"D","S","C","R",":"," ","1",".","3","1","2"," ","(",">","=","1",".","2","5","0",")">>

\* C8, as claimed: whenever the documentation type is not DSCR, no adjustment
\* whose description contains "DSCR" in any case remains in a rate option's
\* adjustment list of a program of the successful response.
C8_Original ==
    Succeeded /\ Scenario.documentationType # "dscr" =>
        \A l \in SurvivingLists : \A k \in 1..Len(l.after) : ~ DSCRLabelled(l.after[k])

\* the adjustments the CASHOUT rule lets through
PassesCashoutRule(adj) == ~ (Scenario.loanPurpose = "refinance" /\ CashoutLabelled(adj))

\* C9, as claimed: for a DSCR scenario with a known ratio the sanitizer never
\* drops an adjustment with "DSCR" in its description (the others go through
\* the CASHOUT rule), changes no amount or rateAdj, leaves an adjustment
\* without "DSCR" in its description unchanged, and rewrites
\* "DSCR: DSCR >= 1.25" with ratio 1.312 and tier ">=1.250" to
\* "DSCR: 1.312 (>=1.250)".
C9_Original ==
    Succeeded /\ Scenario.documentationType = "dscr" /\ Scenario.dscrValue # 0 =>
        \A l \in SurvivingLists :
            LET Stays(adj) == DSCRLabelled(adj) \/ PassesCashoutRule(adj)
                kept == SelectSeq(l.before, Stays)
            IN
            /\ Len(l.after) = Len(kept)
            /\ \A k \in 1..Len(kept) :
                  k <= Len(l.after) =>
                     /\ l.after[k].amount = kept[k].amount
                     /\ l.after[k].rateAdj = kept[k].rateAdj
                     /\ (~ DSCRLabelled(kept[k]) => l.after[k] = kept[k])
                     /\ ((kept[k].description = AdjDSCRThreshold.description
                             /\ Scenario.dscrValue = 1312
                             /\ Scenario.dscrRatio = TierAbove125)
                            => l.after[k].description = RewrittenExample)

\* C9: for a DSCR scenario with a known ratio, the adjustments of a rate
\* option are those the CASHOUT rule lets through, in order; none of them
\* has its amount or rateAdj changed, one without "DSCR" in its description
\* is unchanged, and "DSCR: DSCR >= 1.25" with ratio 1.312 and tier
\* ">=1.250" has become "DSCR: 1.312 (>=1.250)".
C9_RewriteOnly ==
    Succeeded /\ Scenario.documentationType = "dscr" /\ Scenario.dscrValue # 0 =>
        \A l \in SurvivingLists :
            LET kept == SelectSeq(l.before, PassesCashoutRule) IN
            /\ Len(l.after) = Len(kept)
            /\ \A k \in 1..Len(l.after) :
                  /\ l.after[k].amount = kept[k].amount
                  /\ l.after[k].rateAdj = kept[k].rateAdj
                  /\ (~ DSCRLabelled(kept[k]) => l.after[k] = kept[k])
                  /\ ((kept[k].description = AdjDSCRThreshold.description
                          /\ Scenario.dscrValue = 1312
                          /\ Scenario.dscrRatio = TierAbove125)
                         => l.after[k].description = RewrittenExample)

\* the example: ratio 1.312, tier ">=1.250", and the threshold adjustment
\* next to a FICO adjustment
C9_Witness ==
    /\ Succeeded
    /\ Scenario.documentationType = "dscr"
    /\ Scenario.dscrValue = 1312 /\ Scenario.dscrRatio = TierAbove125
    /\ \E l \in SurvivingLists :
          /\ l.before = <<AdjDSCRThreshold, AdjFICO>>
          /\ l.after = <<[AdjDSCRThreshold EXCEPT !.description = RewrittenExample], AdjFICO>>

\* the DSCR rule of the handler: the request is not a DSCR request and the
\* description contains "DSCR"
RemovedByDSCRRule(adj) ==
    /\ Scenario.documentationType # "dscr" /\ Scenario.loanType # "dscr"
    /\ DSCRLabelled(adj)

\* C10: when the loan purpose is 'refinance' no adjustment whose description
\* contains "CASHOUT" is left in a rate option of the response; when it is
\* 'cashout' or 'purchase' every such adjustment is still there, unless the
\* DSCR rule removed it.
C10_CashoutRule ==
    Succeeded =>
        \A l \in SurvivingLists :
            /\ Scenario.loanPurpose = "refinance" =>
                  \A k \in 1..Len(l.after) : ~ CashoutLabelled(l.after[k])
            /\ Scenario.loanPurpose \in {"cashout", "purchase"} =>
                  LET Due(adj) == CashoutLabelled(adj) /\ ~ RemovedByDSCRRule(adj)
                  IN KeysOfAdjustments(SelectSeq(l.after, CashoutLabelled))
                        = KeysOfAdjustments(SelectSeq(l.before, Due))

\* a refinance whose first rate option came with a CASHOUT adjustment
C10_Witness ==
    /\ Succeeded
    /\ Scenario.loanPurpose = "refinance"
    /\ \E l \in SurvivingLists :
          /\ l.before = <<AdjCashout, AdjFICO>>
          /\ l.after = <<AdjFICO>>

----------------------------------------------------------------------------
(* Claims about the global adjustments of the response *)

\* C11: the global-adjustments list of a successful response is the parsed
\* global-adjustments list with every adjustment kept, dropped or rewritten
\* as the rate-option path does it: a rate option parsed with the same list
\* comes out with the same list, and each adjustment alone is treated the
\* same way by the two paths.
C11_GlobalPathAgrees ==
    Succeeded =>
        /\ \A l \in SurvivingLists :
              l.before = Parsed.globalAdjustments /\ l.before # <<>>
                  => l.after = response.data[1].globalAdjustments
        /\ \A k \in 1..Len(Parsed.globalAdjustments) :
              LET adj == Parsed.globalAdjustments[k] IN
              /\ KeepsGlobalAdjustment(adj, Scenario) = KeepsAdjustment(adj, Scenario)
              /\ RewriteGlobalAdjustment(adj, Scenario) = RewriteAdjustment(adj, Scenario)

\* a DSCR refinance with a known ratio: of the threshold adjustment and the
\* CASHOUT adjustment the first is rewritten and the second dropped, globally
\* and in the rate option
C11_Witness ==
    /\ Succeeded
    /\ Scenario.loanPurpose = "refinance"
    /\ Scenario.dscrValue = 1312 /\ Scenario.dscrRatio = TierAbove125
    /\ Parsed.globalAdjustments = <<AdjDSCRThreshold, AdjCashout>>
    /\ response.data[1].globalAdjustments
          = <<[AdjDSCRThreshold EXCEPT !.description = RewrittenExample]>>
    /\ \E l \in SurvivingLists :
          l.before = Parsed.globalAdjustments
              /\ l.after = response.data[1].globalAdjustments

----------------------------------------------------------------------------
(* escapeXml, unescapeXml, unescapeHtmlEntities *)

\* String.prototype.replace with a global pattern of literal text: every
\* occurrence of `from`, left to right and not overlapping, becomes `to`
RECURSIVE ReplaceAll(_, _, _)
ReplaceAll(s, from, to) ==
    IF s = <<>> THEN <<>>
    ELSE IF OccursAt(s, from, 1)
         THEN to \o ReplaceAll(SubSeq(s, Len(from) + 1, Len(s)), from, to)
         ELSE <<Head(s)>> \o ReplaceAll(Tail(s), from, to)

AMP == <<"&">>
LT == <<"<">>
GT == <<">">>
QUOT == <<"\"">>
APOS == <<"'">>
EntAmp == <<"&","a","m","p",";">>
EntLt == <<"&","l","t",";">>
EntGt == <<"&","g","t",";">>
EntQuot == <<"&","q","u","o","t",";">>
EntApos == <<"&","a","p","o","s",";">>

escapeXml(unsafe) ==
    ReplaceAll(ReplaceAll(ReplaceAll(ReplaceAll(ReplaceAll(unsafe,
        AMP, EntAmp), LT, EntLt), GT, EntGt), QUOT, EntQuot), APOS, EntApos)

\* mutant of unescapeXml: the ampersand is decoded first
unescapeXml_AmpFirst(escaped) ==
    ReplaceAll(ReplaceAll(ReplaceAll(ReplaceAll(ReplaceAll(escaped,
        EntAmp, AMP), EntLt, LT), EntGt, GT), EntQuot, QUOT), EntApos, APOS)

unescapeXml(escaped) ==
    ReplaceAll(ReplaceAll(ReplaceAll(ReplaceAll(ReplaceAll(escaped,
        EntLt, LT), EntGt, GT), EntQuot, QUOT), EntApos, APOS), EntAmp, AMP)

unescapeHtmlEntities(t) ==
    ReplaceAll(ReplaceAll(ReplaceAll(ReplaceAll(ReplaceAll(t,
        EntGt, GT), EntLt, LT), EntQuot, QUOT), EntApos, APOS), EntAmp, AMP)

----------------------------------------------------------------------------
(* Specification of the escape round trip: a text is escaped as             *)
(* buildSOAPRequest does and unescaped twice as parseSOAPResponse does      *)

EscapeTokens ==
    {AMP, LT, QUOT, EntAmp, EntLt, <<"a","m","p",";">>, <<"l","t",";">>, <<"x">>}

\* the five characters, the five entities, and an entity escaped once more
NamedEscapeTexts ==
    {AMP \o LT \o GT \o QUOT \o APOS,
     EntAmp \o EntLt \o EntGt \o EntQuot \o EntApos,
     <<"&","a","m","p",";","g","t",";">>,
     <<"&","a","m","p",";","a","p","o","s",";">>}

RECURSIVE EscapeTexts(_)
EscapeTexts(n) ==
    IF n = 0 THEN {<<>>}
    ELSE EscapeTexts(n - 1) \cup
         {s \o t : s \in EscapeTexts(n - 1), t \in EscapeTokens}

InitEscape ==
    /\ pc = "escape"
    /\ text \in EscapeTexts(MaxEscapeTokens) \cup NamedEscapeTexts
    /\ ppp = Null
    /\ IdleRest

Escape ==
    /\ pc = "escape"
    /\ result' = [escaped |-> escapeXml(text),
                  level1 |-> unescapeXml(escapeXml(text)),
                  level2 |-> unescapeXml(unescapeXml(escapeXml(text)))]
    /\ pc' = "escaped"
    /\ UNCHANGED oauthVars
    /\ UNCHANGED <<text, ppp, programs, occupancyType, prepayPeriod, targetOption,
                   formData, engine, response>>

NextEscape == Escape

SpecEscape == InitEscape /\ [][NextEscape]_vars

HoldsEntity(s) ==
    \E e \in {EntAmp, EntLt, EntGt, EntQuot, EntApos} : Includes(s, e)

\* C16: unescapeXml(escapeXml(s)) is s for every text s, and for a text s
\* that contains none of the five named entities, unescaping escapeXml(s)
\* twice also gives s; the escaped text holds none of < > " ' and no
\* ampersand that does not begin an entity.
C16_EscapeRoundTrip ==
    pc = "escaped" =>
        /\ result.level1 = text
        /\ (~ HoldsEntity(text) => result.level2 = text)
        /\ \A i \in 1..Len(result.escaped) :
              /\ result.escaped[i] \notin {"<", ">", "\"", "'"}
              /\ result.escaped[i] = "&" =>
                    \E e \in {EntAmp, EntLt, EntGt, EntQuot, EntApos} :
                        OccursAt(result.escaped, e, i)

\* "&x<" is escaped to "&amp;x&lt;" and comes back after one and after two
\* rounds of unescaping
C16_Witness ==
    /\ pc = "escaped"
    /\ text = <<"&", "x", "<">>
    /\ result.escaped = <<"&","a","m","p",";","x","&","l","t",";">>
    /\ result.level1 = text
    /\ result.level2 = text

\* a text that holds an entity comes back after one round, not after two
C16_EntityWitness ==
    /\ pc = "escaped"
    /\ text = EntLt
    /\ result.level1 = text
    /\ result.level2 = LT

----------------------------------------------------------------------------
(* parseSOAPResponse: reading attributes.  A tag is the text between the    *)
(* element name and the closing bracket, as the regular expressions of      *)
(* parseSOAPResponse capture it.  Number texts carry at most three decimals *)
(* and no exponent.                                                         *)

\* t stands in s at position i, in any case (the regular expression's i flag)
OccursAtAnyCase(s, t, i) ==
    /\ i + Len(t) - 1 <= Len(s)
    /\ \A k \in 1..Len(t) : UpperChar(s[i + k - 1]) = UpperChar(t[k])

\* the least number of a set of numbers that is not empty
Least(S) == CHOOSE i \in S : \A j \in S : i <= j

\* tag.match(new RegExp(`${attr}="([^"]*)"`, 'i')): the leftmost place where
\* attr=" stands, in any case, and the text up to the next quote; without a
\* closing quote there is no match there nor further right
getAttr(tag, attr) ==
    LET starts == {i \in 1..Len(tag) : OccursAtAnyCase(tag, attr \o <<"=", "\"">>, i)}
        from == Least(starts) + Len(attr) + 2
        quotes == {j \in from..Len(tag) : tag[j] = "\""}
    IN IF starts = {} \/ quotes = {} THEN <<>>
       ELSE SubSeq(tag, from, Least(quotes) - 1)

DigitValue(ch) == (CHOOSE d \in 1..10 : DigitText[d] = ch) - 1

RECURSIVE DigitsValue(_)
DigitsValue(ds) ==
    IF ds = <<>> THEN 0
    ELSE 10 * DigitsValue(SubSeq(ds, 1, Len(ds) - 1)) + DigitValue(ds[Len(ds)])

\* the first three decimals, in thousandths
FractionValue(ds) ==
    (IF Len(ds) >= 1 THEN 100 * DigitValue(ds[1]) ELSE 0)
    + (IF Len(ds) >= 2 THEN 10 * DigitValue(ds[2]) ELSE 0)
    + (IF Len(ds) >= 3 THEN DigitValue(ds[3]) ELSE 0)

\* mutant of parseFloat: the sign is not read
parseFloat_Unsigned(s) ==
    LET a == SkipClass(s, 1, WhiteSpace)
        b == IF a <= Len(s) /\ s[a] \in {"+", "-"} THEN a + 1 ELSE a
        c == SkipClass(s, b, Digits)
        dot == c <= Len(s) /\ s[c] = "."
        d == IF dot THEN SkipClass(s, c + 1, Digits) ELSE c
        fraction == IF dot THEN SubSeq(s, c + 1, d - 1) ELSE <<>>
    IN IF (c - b) + Len(fraction) = 0 THEN None
       ELSE Some(1000 * DigitsValue(SubSeq(s, b, c - 1)) + FractionValue(fraction))

\* parseFloat: the longest numeric prefix after leading white space, in
\* thousandths; None is NaN
parseFloat(s) ==
    LET a == SkipClass(s, 1, WhiteSpace)
        negative == a <= Len(s) /\ s[a] = "-"
        b == IF a <= Len(s) /\ s[a] \in {"+", "-"} THEN a + 1 ELSE a
        c == SkipClass(s, b, Digits)
        dot == c <= Len(s) /\ s[c] = "."
        d == IF dot THEN SkipClass(s, c + 1, Digits) ELSE c
        fraction == IF dot THEN SubSeq(s, c + 1, d - 1) ELSE <<>>
        magnitude == 1000 * DigitsValue(SubSeq(s, b, c - 1)) + FractionValue(fraction)
    IN IF (c - b) + Len(fraction) = 0 THEN None
       ELSE Some(IF negative THEN 0 - magnitude ELSE magnitude)

\* x || 0 on a number: NaN and 0 are falsy
OrZero(x) == IF x = None THEN 0 ELSE x[1]

\* x || y || 0 on numbers
OrNumber(x, y) == IF OrZero(x) # 0 THEN x[1] ELSE y

\* parseInt: the digits after leading white space and a sign, as a whole
\* number; None is NaN
parseInt(s) ==
    LET a == SkipClass(s, 1, WhiteSpace)
        negative == a <= Len(s) /\ s[a] = "-"
        b == IF a <= Len(s) /\ s[a] \in {"+", "-"} THEN a + 1 ELSE a
        c == SkipClass(s, b, Digits)
        magnitude == DigitsValue(SubSeq(s, b, c - 1))
    IN IF c = b THEN None
       ELSE Some(IF negative THEN 0 - magnitude ELSE magnitude)

NmDescription == <<"D","e","s","c","r","i","p","t","i","o","n">>
NmIsHidden == <<"I","s","H","i","d","d","e","n">>
NmPoint == <<"P","o","i","n","t">>
NmRate == <<"R","a","t","e">>
TextTrue == <<"T","r","u","e">>
TextZero == <<"0">>
PERCENT == <<"%">>

\* mutant of AdjustmentItem: a hidden item is listed too
AdjustmentItem_KeepsHidden(adjAttrs) ==
    LET desc == getAttr(adjAttrs, NmDescription)
        pointStr == OrElse(getAttr(adjAttrs, NmPoint), TextZero)
        pointVal == OrZero(parseFloat(ReplaceFirst(pointStr, PERCENT, <<>>)))
        rateStr == OrElse(getAttr(adjAttrs, NmRate), TextZero)
        rateAdj == OrZero(parseFloat(ReplaceFirst(rateStr, PERCENT, <<>>)))
    IN IF desc = <<>> THEN None
       ELSE Some([description |-> unescapeHtmlEntities(desc),
                  amount |-> 0 - pointVal,
                  rateAdj |-> rateAdj])

\* one <AdjustmentItem>: None when it is hidden or has no description
AdjustmentItem(adjAttrs) ==
    LET desc == getAttr(adjAttrs, NmDescription)
        isHidden == getAttr(adjAttrs, NmIsHidden) = TextTrue
        pointStr == OrElse(getAttr(adjAttrs, NmPoint), TextZero)
        pointVal == OrZero(parseFloat(ReplaceFirst(pointStr, PERCENT, <<>>)))
        priceAdj == 0 - pointVal
        rateStr == OrElse(getAttr(adjAttrs, NmRate), TextZero)
        rateAdj == OrZero(parseFloat(ReplaceFirst(rateStr, PERCENT, <<>>)))
    IN IF isHidden \/ desc = <<>> THEN None
       ELSE Some([description |-> unescapeHtmlEntities(desc),
                  amount |-> priceAdj,
                  rateAdj |-> rateAdj])

\* the list stored under one template id: the items of the block in order
RECURSIVE TemplateAdjustments(_)
TemplateAdjustments(items) ==
    IF items = <<>> THEN <<>>
    ELSE AdjustmentItem(Head(items)) \o TemplateAdjustments(Tail(items))

----------------------------------------------------------------------------
(* parseSOAPResponse: reading the document.  The document is the element    *)
(* tree the regular expressions cut out of the text unescaped twice:        *)
(*   doc.table    the <Adjustment lLpTemplateId=..> blocks of the           *)
(*                <AdjustmentsTable>, each with its <AdjustmentItem> tags,  *)
(*   doc.programs the <Program> elements, each with its tag and, in order,  *)
(*                the <Adjustment> and <RateOption> elements of its body;   *)
(*                a rate option has its tag and the <Adjustment> tags of    *)
(*                its own body.                                             *)

NmName == <<"N","a","m","e">>
NmStatus == <<"S","t","a","t","u","s">>
NmAPR == <<"A","P","R">>
NmPayment == <<"P","a","y","m","e","n","t">>
NmBestPrice == <<"B","e","s","t","P","r","i","c","e">>
NmTemplateId == <<"l","L","p","T","e","m","p","l","a","t","e","I","d">>
NmAmount == <<"A","m","o","u","n","t">>
NmPrice == <<"P","r","i","c","e">>
NmRateAdj == <<"R","a","t","e","A","d","j">>
NmAdjDescription == <<"s","A","d","j">> \o NmDescription
NmAdjPriceAdj == <<"d","A","d","j","P","r","i","c","e","A","d","j">>
NmAdjRateAdj == <<"d","A","d","j">> \o NmRateAdj
NmParRate == <<"P","a","r">> \o NmRate
NmQualRate == <<"Q","u","a","l">> \o NmRate
NmTerm == <<"T","e","r","m">>
NmParPoints == <<"P","a","r","P","o","i","n","t","s">>
NmLockDays == <<"s","P","r","o","d","R","L","c","k","d","D","a","y","s">>
NmDesc == <<"D","e","s","c">>
NmPriceAdj == NmPrice \o <<"A","d","j">>
COMMA == <<",">>

\* adjustmentsByTemplateId[templateId]: the list of the last block with
\* that id, <<>> when there is none
RECURSIVE AdjustmentsByTemplateId(_, _)
AdjustmentsByTemplateId(table, templateId) ==
    IF table = <<>> THEN <<>>
    ELSE LET block == table[Len(table)] IN
         IF block.templateId = templateId THEN TemplateAdjustments(block.items)
         ELSE AdjustmentsByTemplateId(SubSeq(table, 1, Len(table) - 1), templateId)

\* one <Adjustment> element embedded in a rate option's body
EmbeddedAdjustment(adjAttrs) ==
    [description |-> unescapeHtmlEntities(
                        OrElse(getAttr(adjAttrs, NmDescription), getAttr(adjAttrs, NmName))),
     amount |-> OrNumber(parseFloat(getAttr(adjAttrs, NmAmount)),
                         OrZero(parseFloat(getAttr(adjAttrs, NmPrice)))),
     rateAdj |-> OrNumber(parseFloat(getAttr(adjAttrs, NmRateAdj)),
                          OrZero(parseFloat(getAttr(adjAttrs, NmRate))))]

\* mutant of ResolveAdjustments: the embedded elements are read first
ResolveAdjustments_EmbeddedFirst(table, rAttrs, rateBody) ==
    LET templateId == getAttr(rAttrs, NmTemplateId)
        embedded == [k \in 1..Len(rateBody) |-> EmbeddedAdjustment(rateBody[k])]
    IN IF embedded # <<>> THEN embedded
       ELSE IF templateId # <<>> THEN AdjustmentsByTemplateId(table, templateId)
       ELSE <<>>

\* the adjustments of a rate option: the table's list for its template id,
\* else the elements of its own body; <<>> is undefined
ResolveAdjustments(table, rAttrs, rateBody) ==
    LET templateId == getAttr(rAttrs, NmTemplateId)
        looked == IF templateId # <<>> THEN AdjustmentsByTemplateId(table, templateId)
                  ELSE <<>>
    IN IF looked # <<>> THEN looked
       ELSE [k \in 1..Len(rateBody) |-> EmbeddedAdjustment(rateBody[k])]

\* the status words of the model, which the handler and the sort compare as
\* strings, and their spelling in a tag
StatusWords == {"", "Eligible", "eligible", "Ineligible", "Available", "Unavailable"}

SpellStatus(word) ==
    CASE word = "Eligible"    -> <<"E","l","i","g","i","b","l","e">>
      [] word = "eligible"    -> <<"e","l","i","g","i","b","l","e">>
      [] word = "Ineligible"  -> <<"I","n","e","l","i","g","i","b","l","e">>
      [] word = "Available"   -> <<"A","v","a","i","l","a","b","l","e">>
      [] word = "Unavailable" -> <<"U","n","a","v","a","i","l","a","b","l","e">>
      [] OTHER -> <<>>

\* the attribute value as a status word; a value the model does not spell
\* is "?"
StatusWord(chars) ==
    IF \E w \in StatusWords : SpellStatus(w) = chars
    THEN CHOOSE w \in StatusWords : SpellStatus(w) = chars
    ELSE "?"

\* the object pushed for one <RateOption>
RateOption(table, el) ==
    [rate |-> OrZero(parseFloat(getAttr(el.attrs, NmRate))),
     points |-> OrZero(parseFloat(getAttr(el.attrs, NmPoint))),
     apr |-> OrZero(parseFloat(getAttr(el.attrs, NmAPR))),
     payment |-> OrZero(parseFloat(ReplaceAll(getAttr(el.attrs, NmPayment), COMMA, <<>>))),
     description |-> getAttr(el.attrs, NmDescription),
     status |-> StatusWord(getAttr(el.attrs, NmStatus)),
     bestPrice |-> getAttr(el.attrs, NmBestPrice) = TextTrue,
     adjustments |-> ResolveAdjustments(table, el.attrs, el.body)]

IsRateOptionEl(child) == child.kind = "RateOption"
IsAdjustmentEl(child) == child.kind = "Adjustment"


NmTemplateIdIn(adjAttrs) == Includes(adjAttrs, NmTemplateId)

\* every <Adjustment> tag of a program body in document order, those inside
\* a rate option included
RECURSIVE AdjustmentTags(_)
AdjustmentTags(children) ==
    IF children = <<>> THEN <<>>
    ELSE (IF Head(children).kind = "RateOption" THEN Head(children).body
          ELSE <<Head(children).attrs>>)
         \o AdjustmentTags(Tail(children))

\* one match of progAdjRegex in the program body
ProgramAdjustment(adjAttrs) ==
    [description |-> OrElse(getAttr(adjAttrs, NmDescription),
                            OrElse(getAttr(adjAttrs, NmName), getAttr(adjAttrs, NmDesc))),
     amount |-> OrNumber(parseFloat(getAttr(adjAttrs, NmAmount)),
                         OrNumber(parseFloat(getAttr(adjAttrs, NmPrice)),
                                  OrZero(parseFloat(getAttr(adjAttrs, NmPriceAdj))))),
     rateAdj |-> OrNumber(parseFloat(getAttr(adjAttrs, NmRateAdj)),
                          OrZero(parseFloat(getAttr(adjAttrs, NmRate))))]

\* programAdjustments: progAdjRegex runs over the whole of progBody
ProgramAdjustments(progBody) ==
    LET tags == AdjustmentTags(progBody)
    IN [k \in 1..Len(tags) |-> ProgramAdjustment(tags[k])]

\* what the loop over <Program> reads of one element before the push
ProgramElement(table, n, el) ==
    LET options == SelectSeq(el.body, IsRateOptionEl) IN
    [element |-> n,
     name |-> getAttr(el.attrs, NmName),
     status |-> StatusWord(getAttr(el.attrs, NmStatus)),
     term |-> OrNumber(parseInt(getAttr(el.attrs, NmTerm)), 360),
     parRate |-> OrZero(parseFloat(getAttr(el.attrs, NmParRate))),
     parPoints |-> OrZero(parseFloat(getAttr(el.attrs, NmParPoints))),
     lockDays |-> OrNumber(parseInt(getAttr(el.attrs, NmLockDays)), 30),
     rateOptions |-> [k \in 1..Len(options) |-> RateOption(table, options[k])],
     adjustments |-> ProgramAdjustments(el.body)]

RECURSIVE AllAdjustmentTags(_)
AllAdjustmentTags(programEls) ==
    IF programEls = <<>> THEN <<>>
    ELSE AdjustmentTags(Head(programEls).body) \o AllAdjustmentTags(Tail(programEls))

\* the first loop of parseSOAPResponse on one <Adjustment> tag: a tag that
\* only refers to a template is skipped
GlobalAdjustment(adjAttrs) ==
    IF /\ NmTemplateIdIn(adjAttrs)
       /\ ~ Includes(adjAttrs, NmDescription)
       /\ ~ Includes(adjAttrs, NmAdjDescription)
    THEN <<>>
    ELSE <<[description |-> OrElse(getAttr(adjAttrs, NmAdjDescription),
                                  OrElse(getAttr(adjAttrs, NmDescription),
                                         getAttr(adjAttrs, NmName))),
            amount |-> OrNumber(parseFloat(getAttr(adjAttrs, NmAdjPriceAdj)),
                         OrNumber(parseFloat(getAttr(adjAttrs, NmAmount)),
                                  OrZero(parseFloat(getAttr(adjAttrs, NmPrice))))),
            rateAdj |-> OrNumber(parseFloat(getAttr(adjAttrs, NmAdjRateAdj)),
                                 OrZero(parseFloat(getAttr(adjAttrs, NmRateAdj))))]>>

RECURSIVE GlobalAdjustments(_)
GlobalAdjustments(tags) ==
    IF tags = <<>> THEN <<>>
    ELSE GlobalAdjustment(Head(tags)) \o GlobalAdjustments(Tail(tags))

\* globalAdjustments.push(...templateAdjustments), block after block
RECURSIVE TableAdjustments(_)
TableAdjustments(table) ==
    IF table = <<>> THEN <<>>
    ELSE TemplateAdjustments(Head(table).items) \o TableAdjustments(Tail(table))

\* the elements parseSOAPResponse assembles and sorts
ReadDocument(doc) ==
    [programs |-> [n \in 1..Len(doc.programs) |->
                      ProgramElement(doc.table, n, doc.programs[n])],
     globalAdjustments |-> GlobalAdjustments(AllAdjustmentTags(doc.programs))
                              \o TableAdjustments(doc.table)]

----------------------------------------------------------------------------
(* Specification of parseSOAPResponse: one document is parsed.  A tag is    *)
(* written from the attributes the engine gives it; an attribute is None    *)
(* when the tag does not carry it.                                          *)

Attr(name, value) == name \o <<"=", "\"">> \o value \o <<"\"">>

\* the attributes that are there, separated by one space
RECURSIVE WriteTag(_)
WriteTag(attrs) ==
    IF attrs = <<>> THEN <<>>
    ELSE IF Head(attrs)[2] = None THEN WriteTag(Tail(attrs))
    ELSE Attr(Head(attrs)[1], Head(attrs)[2][1])
            \o (IF WriteTag(Tail(attrs)) = <<>> THEN <<>> ELSE SP \o WriteTag(Tail(attrs)))

\* a number in thousandths written with three decimals, as "0.500" or "-0.250"
WriteNumber(n) == IF n < 0 THEN <<"-">> \o ToFixed3(0 - n) ELSE ToFixed3(n)

\* an attribute value and the number it stands for
Percent(n) == [attr |-> Some(WriteNumber(n) \o PERCENT), value |-> n]

NoNumber == [attr |-> None, value |-> 0]

PointSpecs ==
    {Percent(500), Percent(-250), Percent(0), Percent(1125), NoNumber,
     [attr |-> Some(<<"n","/","a">>), value |-> 0],
     [attr |-> Some(<<>>), value |-> 0]}

RateSpecs == {Percent(125), Percent(-125), NoNumber, [attr |-> Some(PERCENT), value |-> 0]}

\* a description as the tag carries it and as it reads
DescFICO == [attr |-> Some(<<"F","I","C","O"," ","7","2","0">>),
             plain |-> <<"F","I","C","O"," ","7","2","0">>]
DescLTV == [attr |-> Some(<<"L","T","V"," ">> \o EntGt \o <<" ","8","0">>),
            plain |-> <<"L","T","V"," ",">"," ","8","0">>]
DescPriceGroup == [attr |-> Some(<<"P","r","i","c","e"," ","G","r","o","u","p">>),
                   plain |-> <<"P","r","i","c","e"," ","G","r","o","u","p">>]
NoDescription == [attr |-> None, plain |-> <<>>]
EmptyDescription == [attr |-> Some(<<>>), plain |-> <<>>]

ItemSpec(desc, hidden, point, rate) ==
    [desc |-> desc, hidden |-> hidden, point |-> point, rate |-> rate]

\* items that differ in what decides whether they are listed
ListItemSpecs ==
    {ItemSpec(DescLTV, None, Percent(500), Percent(125)),
     ItemSpec(DescFICO, None, Percent(-250), NoNumber),
     ItemSpec(DescPriceGroup, Some(TextTrue), Percent(500), NoNumber),
     ItemSpec(NoDescription, None, Percent(500), NoNumber)}

\* items that differ in their numbers
ValueItemSpecs ==
    {ItemSpec(DescFICO, None, point, rate) : point \in PointSpecs, rate \in RateSpecs}

OtherItemSpecs ==
    {ItemSpec(DescPriceGroup, Some(TextTrue), NoNumber, NoNumber),
     ItemSpec(DescFICO, Some(<<"t","r","u","e">>), Percent(500), NoNumber),
     ItemSpec(DescFICO, Some(<<"F","a","l","s","e">>), Percent(500), NoNumber),
     ItemSpec(EmptyDescription, None, Percent(500), NoNumber)}

ItemSpecs == ListItemSpecs \cup ValueItemSpecs \cup OtherItemSpecs

ItemTag(spec) ==
    WriteTag(<< <<NmDescription, spec.desc.attr>>, <<NmIsHidden, spec.hidden>>,
                <<NmPoint, spec.point.attr>>, <<NmRate, spec.rate.attr>> >>)

TemplateT1 == <<"T","1">>
TemplateT2 == <<"T","2">>

\* <Adjustment> elements as a rate option's body embeds them
EmbeddedE1 ==
    WriteTag(<< <<NmDescription, Some(<<"L","o","c","k"," ","3","0">>)>>,
                <<NmAmount, Some(<<"-","0",".","1","2","5">>)>>,
                <<NmRateAdj, Some(<<"0",".","2","5","0">>)>> >>)
EmbeddedE2 ==
    WriteTag(<< <<NmName, Some(<<"S","t","a","t","e"," ","&","a","m","p",";"," ","T","X">>)>>,
                <<NmPrice, Some(<<"0",".","3","7","5">>)>> >>)

EmbeddedBodies == {<<>>, <<EmbeddedE1, EmbeddedE2>>}

\* the k-th <RateOption> of a program: rate 4.000 + 0.125 k
RateOptionTag(k, best, status, templateId) ==
    WriteTag(<< <<NmRate, Some(WriteNumber(4000 + 125 * k))>>,
                <<NmPoint, Some(WriteNumber(250 * k - 500))>>,
                <<NmAPR, Some(WriteNumber(4050 + 125 * k))>>,
                <<NmPayment, Some(<<"2",",","0","0",DigitText[k + 1],".","5","0">>)>>,
                <<NmDescription, Some(DescPlain)>>,
                <<NmStatus, Some(SpellStatus(status))>>,
                <<NmBestPrice, best>>,
                <<NmTemplateId, templateId>> >>)

RateOptionChild(k, best, status, templateId, embedded) ==
    [kind |-> "RateOption", attrs |-> RateOptionTag(k, best, status, templateId),
     body |-> embedded]

ProgramTag(name, status) ==
    WriteTag(<< <<NmName, name>>, <<NmStatus, Some(SpellStatus(status))>> >>)

\* the Name and the Status of the <Program> tag
ProgramTags ==
    {<<Some(NamePlain), "Eligible">>, <<Some(NamePlain), "Ineligible">>,
     <<None, "Eligible">>, <<Some(<<>>), "Eligible">>}

\* how a rate option is flagged: BestPrice and Status
OptionKinds == {None, Some(TextTrue)} \X {"Available", "Unavailable"}

\* one block T1 in the table and one program with one rate option
TableDoc(items, templateId, embedded) ==
    [table |-> <<[templateId |-> TemplateT1, items |-> items]>>,
     programs |-> <<[attrs |-> ProgramTag(Some(NamePlain), "Eligible"),
                     body |-> <<RateOptionChild(1, None, "Available", templateId, embedded)>>]>>]

\* no table and one program with the rate options kinds
ProgramDoc(name, status, kinds) ==
    [table |-> <<>>,
     programs |-> <<[attrs |-> ProgramTag(name, status),
                     body |-> [k \in 1..Len(kinds) |->
                                  RateOptionChild(k, kinds[k][1], kinds[k][2], None, <<>>)]]>>]

\* an attribute as the engine writes it, or None when the tag lacks it, and
\* the number the parsed field is to have
Field(attr, value) == [attr |-> attr, value |-> value]

NotANumber == <<"n","/","a">>

TermFields ==
    {Field(None, 360), Field(Some(<<"1","8","0">>), 180), Field(Some(NotANumber), 360)}
LockDaysFields == {Field(None, 30), Field(Some(<<"4","5">>), 45)}
ParRateFields == {Field(None, 0), Field(Some(WriteNumber(6125)), 6125)}
RateFields ==
    {Field(None, 0), Field(Some(WriteNumber(6125)), 6125), Field(Some(NotANumber), 0)}
PaymentFields ==
    {Field(None, 0),
     Field(Some(<<"2",",","0","0","1",".","5","0">>), 2001500),
     Field(Some(<<"1",",","2","3","4",",","5","6","7",".","8","9">>), 1234567890)}

\* the qualifying rate a rate option may carry next to its rate
QualRates == {None, Some(WriteNumber(7000))}

\* no table and one program with one rate option, written from the fields
FieldsDoc(fields) ==
    [table |-> <<>>,
     programs |-> <<[attrs |-> WriteTag(<< <<NmName, Some(NamePlain)>>,
                                          <<NmStatus, Some(SpellStatus("Eligible"))>>,
                                          <<NmTerm, fields.term.attr>>,
                                          <<NmLockDays, fields.lockDays.attr>>,
                                          <<NmParRate, fields.parRate.attr>> >>),
                     body |-> <<[kind |-> "RateOption",
                                 attrs |-> WriteTag(<< <<NmRate, fields.rate.attr>>,
                                                      <<NmPayment, fields.payment.attr>>,
                                                      <<NmStatus, Some(SpellStatus("Available"))>>,
                                                      <<NmQualRate, fields.qualRate>> >>),
                                 body |-> <<>>]>>]>>,
     fields |-> fields]

\* two blocks of the same template id, a program-level <Adjustment>, and two
\* programs
MixedDoc ==
    [table |-> <<[templateId |-> TemplateT1,
                  items |-> <<ItemTag(ItemSpec(DescFICO, None, Percent(500), NoNumber))>>],
                 [templateId |-> TemplateT2,
                  items |-> <<ItemTag(ItemSpec(DescPriceGroup, Some(TextTrue), NoNumber, NoNumber))>>],
                 [templateId |-> TemplateT1,
                  items |-> <<ItemTag(ItemSpec(DescLTV, None, Percent(500), Percent(125)))>>]>>,
     programs |-> <<[attrs |-> ProgramTag(Some(Name3YRPPP), "Ineligible"),
                     body |-> <<RateOptionChild(1, None, "Unavailable", Some(TemplateT2),
                                                <<EmbeddedE2>>),
                                [kind |-> "Adjustment", attrs |-> EmbeddedE1]>>],
                    [attrs |-> ProgramTag(Some(NamePlain), "Eligible"),
                     body |-> <<RateOptionChild(1, None, "Available", Some(TemplateT1), <<>>),
                                RateOptionChild(2, Some(TextTrue), "Available", None, <<>>)>>]>>]

InitParse ==
    /\ pc = "parse"
    /\ text = <<>>
    /\ ppp = Null
    /\ programs = <<>>
    /\ occupancyType = Null
    /\ prepayPeriod = Null
    /\ targetOption = None
    /\ formData = Null
    /\ result = None
    /\ response = Null
    /\ OAuthIdle
    /\ \/ \E specs \in SeqsOf(ListItemSpecs, 0, MaxItems) :
          \E templateId \in {None, Some(TemplateT1), Some(TemplateT2)} :
          \E embedded \in EmbeddedBodies :
             engine = TableDoc([k \in 1..Len(specs) |-> ItemTag(specs[k])],
                               templateId, embedded)
       \/ \E spec \in ItemSpecs :
             engine = TableDoc(<<ItemTag(spec)>>, Some(TemplateT1), <<>>)
       \/ \E tag \in ProgramTags :
          \E kinds \in SeqsOf(OptionKinds, 0, MaxParsedOptions) :
             engine = ProgramDoc(tag[1], tag[2], kinds)
       \/ engine = MixedDoc

\* parseSOAPResponse on the document, with the table it builds on the way
Parse ==
    /\ pc = "parse"
    /\ LET read == ReadDocument(engine) IN
       result' = [byTemplateId |->
                     [b \in 1..Len(engine.table) |->
                         [templateId |-> engine.table[b].templateId,
                          adjustments |->
                              AdjustmentsByTemplateId(engine.table,
                                                      engine.table[b].templateId)]],
                  read |-> read,
                  parsed |-> parseSOAPResponse(read)]
    /\ pc' = "parsed"
    /\ UNCHANGED oauthVars
    /\ UNCHANGED <<text, ppp, programs, occupancyType, prepayPeriod, targetOption,
                   formData, engine, response>>

NextParse == Parse

SpecParse == InitParse /\ [][NextParse]_vars

----------------------------------------------------------------------------
(* Claims on the adjustments table and on the rate options *)

ParseDone == pc = "parsed"

\* the item the engine wrote as this tag
SpecOf(tag) == CHOOSE spec \in ItemSpecs : ItemTag(spec) = tag

BlockSpecs(block) == [k \in 1..Len(block.items) |-> SpecOf(block.items[k])]

\* not flagged IsHidden="True" and with a description
ItemListed(spec) == spec.hidden # Some(TextTrue) /\ spec.desc.plain # <<>>

ListedSpecs(block) == SelectSeq(BlockSpecs(block), ItemListed)

\* the last block of the table with the template id of block b
LastBlock(table, b) ==
    table[CHOOSE c \in b..Len(table) :
             /\ table[c].templateId = table[b].templateId
             /\ \A d \in (c + 1)..Len(table) : table[d].templateId # table[b].templateId]

ExpectedItem(spec) ==
    [description |-> spec.desc.plain,
     amount |-> 0 - spec.point.value,
     rateAdj |-> spec.rate.value]

\* C12: every listed item of the adjustments table has as amount the
\* negation of the number its Point attribute writes before the percent sign
\* (0 when Point is absent or is no number) and as rateAdj the number of its
\* Rate attribute with its sign
C12_NegatedPoint ==
    ParseDone =>
        \A b \in 1..Len(engine.table) :
            LET listed == ListedSpecs(LastBlock(engine.table, b))
                adjs == result.byTemplateId[b].adjustments
            IN /\ Len(adjs) = Len(listed)
               /\ \A k \in 1..Len(adjs) :
                     /\ adjs[k].amount = 0 - listed[k].point.value
                     /\ adjs[k].rateAdj = listed[k].rate.value

\* Point="-0.250%" and Rate="0.125%" were parsed to 0.25 and 0.125
C12_Witness ==
    /\ ParseDone
    /\ engine.table = <<[templateId |-> TemplateT1,
                         items |-> <<ItemTag(ItemSpec(DescFICO, None, Percent(-250),
                                                      Percent(125)))>>]>>
    /\ result.byTemplateId[1].adjustments[1].amount = 250
    /\ result.byTemplateId[1].adjustments[1].rateAdj = 125

\* Point="0.500%" without a Rate was parsed to -0.5 and 0
C12_PositiveWitness ==
    /\ ParseDone
    /\ engine.table = <<[templateId |-> TemplateT1,
                         items |-> <<ItemTag(ItemSpec(DescFICO, None, Percent(500),
                                                      NoNumber))>>]>>
    /\ result.byTemplateId[1].adjustments[1].amount = -500
    /\ result.byTemplateId[1].adjustments[1].rateAdj = 0

\* what the two embedded <Adjustment> elements read as
ExpectedE1 == [description |-> <<"L","o","c","k"," ","3","0">>, amount |-> -125, rateAdj |-> 250]
ExpectedE2 == [description |-> <<"S","t","a","t","e"," ","&"," ","T","X">>,
               amount |-> 375, rateAdj |-> 0]

ExpectedEmbedded(tag) == IF tag = EmbeddedE1 THEN ExpectedE1 ELSE ExpectedE2

TemplateIdOf(tag) ==
    IF Includes(tag, Attr(NmTemplateId, TemplateT1)) THEN Some(TemplateT1)
    ELSE IF Includes(tag, Attr(NmTemplateId, TemplateT2)) THEN Some(TemplateT2)
    ELSE None

\* the list the table stores under a template id, <<>> without such a block
TableList(templateId) ==
    IF \E b \in 1..Len(engine.table) : Some(engine.table[b].templateId) = templateId
    THEN result.byTemplateId[CHOOSE b \in 1..Len(engine.table) :
                                Some(engine.table[b].templateId) = templateId].adjustments
    ELSE <<>>

\* C14: a rate option has the table's list of its template id when that
\* list is there and not empty, and else the <Adjustment> elements of its
\* own body
C14_ResolvedAdjustments ==
    ParseDone =>
        \A n \in 1..Len(engine.programs) :
            LET options == SelectSeq(engine.programs[n].body, IsRateOptionEl) IN
            \A k \in 1..Len(options) :
                LET list == TableList(TemplateIdOf(options[k].attrs))
                    adjs == result.read.programs[n].rateOptions[k].adjustments
                IN IF list # <<>> THEN adjs = list
                   ELSE /\ Len(adjs) = Len(options[k].body)
                        /\ \A j \in 1..Len(adjs) :
                              adjs[j] = ExpectedEmbedded(options[k].body[j])

\* a rate option with embedded elements took the table's list
C14_Witness ==
    /\ ParseDone
    /\ Len(engine.programs) = 1
    /\ engine.programs[1].body[1].body = <<EmbeddedE1, EmbeddedE2>>
    /\ TemplateIdOf(engine.programs[1].body[1].attrs) = Some(TemplateT1)
    /\ result.byTemplateId[1].adjustments # <<>>
    /\ result.read.programs[1].rateOptions[1].adjustments =
          result.byTemplateId[1].adjustments

\* a rate option whose template id has an empty list took its own elements
C14_FallbackWitness ==
    /\ ParseDone
    /\ Len(engine.programs) = 1
    /\ Len(engine.table[1].items) > 0
    /\ TemplateIdOf(engine.programs[1].body[1].attrs) = Some(TemplateT1)
    /\ result.byTemplateId[1].adjustments = <<>>
    /\ result.read.programs[1].rateOptions[1].adjustments = <<ExpectedE1, ExpectedE2>>

\* the flags a <RateOption> tag was written with
BestFlagged(el) == Includes(el.attrs, Attr(NmBestPrice, TextTrue))
AvailableFlagged(el) == Includes(el.attrs, Attr(NmStatus, SpellStatus("Available")))

\* the <Program> tag was written with a name that is not empty
Named(tag) ==
    Includes(tag, Attr(NmName, NamePlain)) \/ Includes(tag, Attr(NmName, Name3YRPPP))

\* the position of the representative among the rate options
Representative(options) ==
    IF \E k \in 1..Len(options) : BestFlagged(options[k])
    THEN CHOOSE k \in 1..Len(options) :
            /\ BestFlagged(options[k])
            /\ \A j \in 1..(k - 1) : ~ BestFlagged(options[j])
    ELSE IF \E k \in 1..Len(options) : AvailableFlagged(options[k])
    THEN CHOOSE k \in 1..Len(options) :
            /\ AvailableFlagged(options[k])
            /\ \A j \in 1..(k - 1) : ~ AvailableFlagged(options[j])
    ELSE 1

\* C15: a <Program> element is among the parsed programs exactly when its
\* name is not empty and it has a rate option, and then once; its rate, apr,
\* points, payment and description are those of the first best-price option,
\* else of the first "Available" option, else of the first option
C15_RetainedPrograms ==
    ParseDone =>
        \A n \in 1..Len(engine.programs) :
            LET options == SelectSeq(engine.programs[n].body, IsRateOptionEl)
                kept == {i \in 1..Len(result.parsed.programs) :
                            result.parsed.programs[i].element = n}
                k == Representative(options)
            IN IF Named(engine.programs[n].attrs) /\ options # <<>>
               THEN /\ Cardinality(kept) = 1
                    /\ \A i \in kept :
                          /\ result.parsed.programs[i].rate = 4000 + 125 * k
                          /\ result.parsed.programs[i].apr = 4050 + 125 * k
                          /\ result.parsed.programs[i].points = 250 * k - 500
                          /\ result.parsed.programs[i].payment = 2000500 + 1000 * k
                          /\ result.parsed.programs[i].description = DescPlain
                          /\ Len(result.parsed.programs[i].rateOptions) = Len(options)
               ELSE kept = {}

\* an "Available" option before the best-price option: the second one gave
\* the program its rate
C15_Witness ==
    /\ ParseDone
    /\ Len(engine.programs) = 1
    /\ Len(engine.programs[1].body) = 2
    /\ AvailableFlagged(engine.programs[1].body[1])
    /\ ~ BestFlagged(engine.programs[1].body[1])
    /\ BestFlagged(engine.programs[1].body[2])
    /\ Len(result.parsed.programs) = 1
    /\ result.parsed.programs[1].rate = 4250

\* a program without a name and a program without a rate option are dropped
C15_NamelessWitness ==
    /\ ParseDone
    /\ Len(engine.programs) = 1
    /\ ~ Named(engine.programs[1].attrs)
    /\ Len(engine.programs[1].body) = 2
    /\ result.parsed.programs = <<>>

C15_NoOptionWitness ==
    /\ ParseDone
    /\ Len(engine.programs) = 1
    /\ Named(engine.programs[1].attrs)
    /\ engine.programs[1].body = <<>>
    /\ result.parsed.programs = <<>>

----------------------------------------------------------------------------
(* Claims on the failures of the handler *)

Responded == pc = "responded"

\* both requests were answered with a 2xx status
Answered == engine.oauth = "ok" /\ engine.http = "ok"

\* C17: when the engine answers 2xx with status="Error" in its text, escaped
\* or not, the response is a failure whose error is the text the engine gave
\* or 'Unknown pricing error'; it is no success and not the 'No programs
\* found' outcome, and nothing was parsed
C17_EngineError ==
    (Responded /\ Answered /\ engine.responseText \in ErrorTexts) =>
        /\ ~ response.success
        /\ response.error \in {InvalidLoanAmount, UnknownPricingError}
        /\ (engine.responseText = ResultError => response.error = InvalidLoanAmount)
        /\ response.error # NoProgramsMessage
        /\ response.allPrograms = <<>>
        /\ response.data = None
        /\ result = None

\* an escaped error status in front of a document with eligible programs
C17_Witness ==
    /\ Responded
    /\ engine = Answer("ok", "ok", ResultErrorEscaped, ExampleBody)
    /\ response = Failure(200, UnknownPricingError)

\* the error text is taken from the answer
C17_TextWitness ==
    /\ Responded
    /\ engine = Answer("ok", "ok", ResultError, ExampleBody)
    /\ response = Failure(200, InvalidLoanAmount)

\* the entry of the diagnostic list for one parsed program
Diagnostic(p) ==
    [programName |-> p.programName,
     status |-> p.status,
     rateOptionsCount |-> Len(p.rateOptions),
     sampleRateDesc |-> IF p.rateOptions # <<>> /\ p.rateOptions[1].description # <<>>
                        THEN p.rateOptions[1].description
                        ELSE NotAvailable]

\* the programs the filter keeps, said from the parsed result
KeptByFilter ==
    {i \in 1..Len(Parsed.programs) :
        /\ Parsed.programs[i].status = "Eligible"
        /\ \/ Scenario.occupancyType = "investment"
           \/ /\ ~ hasPPP(Parsed.programs[i].programName)
              /\ ~ hasPPP(Parsed.programs[i].description)
              /\ \E k \in 1..Len(Parsed.programs[i].rateOptions) :
                    ~ hasPPP(Parsed.programs[i].rateOptions[k].description)}

\* C18: when the filter keeps no program of an answer without error, the
\* response is the 'No programs found' outcome; it differs from every
\* transport and engine failure and lists every parsed program as it was
\* before the filter: name, status, number of rate options and first
\* description, in the order of the parsed result
C18_NoPrograms ==
    (/\ Responded
     /\ Answered
     /\ ~ engine.responseText \in ErrorTexts
     /\ KeptByFilter = {}) =>
        /\ ~ response.success
        /\ response.error = NoProgramsMessage
        /\ response.error \notin {TimeoutMessage, OAuthFailedMessage, PricerFailedMessage,
                                  InvalidLoanAmount, UnknownPricingError}
        /\ Len(response.allPrograms) = Len(Parsed.programs)
        /\ \A i \in 1..Len(Parsed.programs) :
              response.allPrograms[i] = Diagnostic(Parsed.programs[i])

\* an eligible program with penalty options only and a program that is not
\* eligible: both are listed
C18_Witness ==
    /\ Responded
    /\ Answered
    /\ response.error = NoProgramsMessage
    /\ Scenario.occupancyType # "investment"
    /\ Len(response.allPrograms) = 2
    /\ \E i, j \in 1..2 :
          /\ response.allPrograms[i].status = "Eligible"
          /\ response.allPrograms[i].rateOptionsCount >= 2
          /\ response.allPrograms[j].status # "Eligible"

----------------------------------------------------------------------------
(* getOAuthToken.  The function runs to its first await without            *)
(* interruption; other calls and the clock move while it awaits fetch and   *)
(* while it awaits response.json().  A call is a record:                    *)
(*   pc         "idle", "fetching" (awaiting fetch), "parsing" (awaiting    *)
(*              response.json()), "returned" or "thrown"                    *)
(*   contacted  the call sent a request to the OAuth endpoint               *)
(*   seen       cachedToken as the call found it on entry                   *)
(*   calledAt   Date.now() on entry                                         *)
(*   data       the JSON of the response, None before it is there           *)
(*   storedAt   Date.now() when the call assigned cachedToken               *)
(*   token      the value returned, None before                             *)

RefreshMargin == 300
MsPerSecond == 1000

\* expires_in of a response, in seconds
ExpiresIn == {300, 301, 302}

restVars == <<pc, text, ppp, programs, occupancyType, prepayPeriod, targetOption,
              formData, engine, result, response>>

NewCall ==
    [pc |-> "idle", contacted |-> FALSE, seen |-> None, calledAt |-> 0,
     data |-> None, storedAt |-> 0, token |-> None]

\* mutant of CacheFresh: an entry is still served at its expiry
CacheFresh_AtExpiry(cached, t) == cached # None /\ cached[1].expiresAt >= t

\* cachedToken && cachedToken.expiresAt > Date.now()
CacheFresh(cached, t) == cached # None /\ cached[1].expiresAt > t

\* mutant of Refreshed: the token of the cached object is overwritten and
\* its expiresAt is left as it is
Refreshed_InPlace(cached, data, t) ==
    IF cached = None
    THEN Some([token |-> data.access_token,
               expiresAt |-> t + (data.expires_in - RefreshMargin) * MsPerSecond])
    ELSE Some([token |-> data.access_token, expiresAt |-> cached[1].expiresAt])

\* the object assigned to cachedToken
Refreshed(cached, data, t) ==
    Some([token |-> data.access_token,
          expiresAt |-> t + (data.expires_in - RefreshMargin) * MsPerSecond])

InitOAuth ==
    /\ pc = "oauth"
    /\ text = <<>>
    /\ ppp = Null
    /\ programs = <<>>
    /\ occupancyType = Null
    /\ prepayPeriod = Null
    /\ targetOption = None
    /\ formData = Null
    /\ engine = Null
    /\ result = Null
    /\ response = Null
    /\ cachedToken = None
    /\ now = 0
    /\ calls = [c \in 1..MaxCalls |-> NewCall]

\* a call starts: it returns the cached token or sends the token request
Enter(c) ==
    /\ pc = "oauth"
    /\ calls[c].pc = "idle"
    /\ calls' = [calls EXCEPT ![c] =
                    IF CacheFresh(cachedToken, now)
                    THEN [@ EXCEPT !.pc = "returned", !.seen = cachedToken,
                                   !.calledAt = now,
                                   !.token = Some(cachedToken[1].token)]
                    ELSE [@ EXCEPT !.pc = "fetching", !.contacted = TRUE,
                                   !.seen = cachedToken, !.calledAt = now]]
    /\ UNCHANGED <<cachedToken, now>>
    /\ UNCHANGED restVars

\* the endpoint answers 2xx; the token it issues is named after the call
ResponseOK(c) ==
    /\ pc = "oauth"
    /\ calls[c].pc = "fetching"
    /\ \E e \in ExpiresIn :
          calls' = [calls EXCEPT ![c] =
                       [@ EXCEPT !.pc = "parsing",
                                 !.data = Some([access_token |-> <<"token", c>>,
                                                expires_in |-> e])]]
    /\ UNCHANGED <<cachedToken, now>>
    /\ UNCHANGED restVars

\* the endpoint answers with another status: the call throws
ResponseFailed(c) ==
    /\ pc = "oauth"
    /\ calls[c].pc = "fetching"
    /\ calls' = [calls EXCEPT ![c] = [@ EXCEPT !.pc = "thrown"]]
    /\ UNCHANGED <<cachedToken, now>>
    /\ UNCHANGED restVars

\* response.json() is there: cachedToken is assigned and its token returned
Store(c) ==
    /\ pc = "oauth"
    /\ calls[c].pc = "parsing"
    /\ cachedToken' = Refreshed(cachedToken, calls[c].data[1], now)
    /\ calls' = [calls EXCEPT ![c] =
                    [@ EXCEPT !.pc = "returned", !.storedAt = now,
                              !.token = Some(cachedToken'[1].token)]]
    /\ UNCHANGED now
    /\ UNCHANGED restVars

\* a second passes
Tick ==
    /\ pc = "oauth"
    /\ now < MaxTicks * MsPerSecond
    /\ now' = now + MsPerSecond
    /\ UNCHANGED <<cachedToken, calls>>
    /\ UNCHANGED restVars

NextOAuth ==
    \/ Tick
    \/ \E c \in 1..MaxCalls : Enter(c)
    \/ \E c \in 1..MaxCalls : ResponseOK(c)
    \/ \E c \in 1..MaxCalls : ResponseFailed(c)
    \/ \E c \in 1..MaxCalls : Store(c)

SpecOAuth == InitOAuth /\ [][NextOAuth]_vars

----------------------------------------------------------------------------
(* Claims on getOAuthToken *)

OAuthRuns == pc = "oauth"

\* the pair a call made of its response when it stored it
PairOf(call) ==
    [token |-> call.data[1].access_token,
     expiresAt |-> call.storedAt
                     + (call.data[1].expires_in - RefreshMargin) * MsPerSecond]

\* the call received a response and assigned cachedToken
Stored(call) == call.pc = "returned" /\ call.contacted

\* C19: under every interleaving of the calls, cachedToken is empty or is
\* the pair one call made of the token and the expires_in of one response;
\* and the token a call returns is one a response issued
C19_CacheIntact ==
    OAuthRuns =>
        /\ \/ cachedToken = None
           \/ \E c \in 1..MaxCalls :
                 Stored(calls[c]) /\ cachedToken = Some(PairOf(calls[c]))
        /\ \A c \in 1..MaxCalls :
              calls[c].pc = "returned" =>
                 \E d \in 1..MaxCalls :
                    /\ calls[d].data # None
                    /\ calls[c].token = Some(calls[d].data[1].access_token)

\* two calls found the cache empty, both fetched, and the cache holds the
\* pair of the one that stored last, with another lifetime than the first
C19_Witness ==
    /\ OAuthRuns
    /\ Stored(calls[1]) /\ Stored(calls[2])
    /\ calls[1].seen = None /\ calls[2].seen = None
    /\ calls[1].data[1].expires_in # calls[2].data[1].expires_in
    /\ calls[1].storedAt < calls[2].storedAt
    /\ cachedToken = Some(PairOf(calls[2]))

\* C20: a call returns the cached token without a request exactly when
\* cachedToken is there and its expiresAt is later than Date.now(), and else
\* sends the request; so no token is returned from the cache at or after
\* its expiresAt; a call whose request is answered with a failure throws and
\* leaves cachedToken as it is
C20_CachedUntilExpiry ==
    [][OAuthRuns =>
        \A c \in 1..MaxCalls :
            /\ (calls[c].pc = "idle" /\ calls'[c].pc # "idle") =>
                  IF cachedToken # None /\ cachedToken[1].expiresAt > now
                  THEN /\ calls'[c].pc = "returned"
                       /\ ~ calls'[c].contacted
                       /\ calls'[c].token = Some(cachedToken[1].token)
                       /\ cachedToken' = cachedToken
                  ELSE /\ calls'[c].pc = "fetching"
                       /\ calls'[c].contacted
            /\ (calls'[c].pc = "returned" /\ ~ calls'[c].contacted) =>
                  /\ calls'[c].seen # None
                  /\ calls'[c].calledAt < calls'[c].seen[1].expiresAt
            /\ (calls[c].pc = "fetching" /\ calls'[c].pc = "thrown") =>
                  cachedToken' = cachedToken]_vars

\* one call stored a token and the other call got it from the cache a
\* second later
C20_Witness ==
    /\ OAuthRuns
    /\ \E c, d \in 1..MaxCalls :
          /\ Stored(calls[c])
          /\ calls[d].pc = "returned" /\ ~ calls[d].contacted
          /\ calls[d].seen = Some(PairOf(calls[c]))
          /\ calls[d].calledAt > calls[c].storedAt
          /\ calls[d].token = calls[c].token

\* a call at the very expiresAt of the cached entry sent a request
C20_ExpiryWitness ==
    /\ OAuthRuns
    /\ \E d \in 1..MaxCalls :
          /\ calls[d].contacted
          /\ calls[d].seen # None
          /\ calls[d].calledAt = calls[d].seen[1].expiresAt

\* a call threw while the cache held an entry
C20_ThrownWitness ==
    /\ OAuthRuns
    /\ cachedToken # None
    /\ \E d \in 1..MaxCalls : calls[d].pc = "thrown" /\ calls[d].seen # None

\* how often a request was sent
Attempts(name) == Cardinality({i \in 1..Len(calls) : calls[i] = name})

\* C21: when the token request or the pricing request is answered with a
\* status that is not 2xx, or times out, the response is a failure whose
\* error names that status or the timeout; each request was sent at most
\* once, nothing was parsed and the response is no success
C21_FailedCall ==
    (Responded /\ ~ Answered) =>
        LET failed == IF engine.oauth # "ok" THEN engine.oauth ELSE engine.http IN
        /\ ~ response.success
        /\ response.data = None
        /\ result = None
        /\ (failed = "timeout" => Includes(response.error, <<"t","i","m","e","o","u","t">>))
        /\ (failed = "401" => Includes(response.error, <<"H","T","T","P"," ","4","0","1">>))
        /\ (failed = "500" => Includes(response.error, <<"H","T","T","P"," ","5","0","0">>))
        /\ Attempts("oauth") = 1
        /\ Attempts("pricer") = (IF engine.oauth = "ok" THEN 1 ELSE 0)

\* the pricing request was answered with HTTP 500
C21_Witness ==
    /\ Responded
    /\ engine.oauth = "ok" /\ engine.http = "500"
    /\ response = Failure(200, PricerFailedMessage)
    /\ calls = <<"oauth", "pricer">>

\* the token request timed out
C21_TimeoutWitness ==
    /\ Responded
    /\ engine.oauth = "timeout"
    /\ response = Failure(500, TimeoutMessage)
    /\ calls = <<"oauth">>

----------------------------------------------------------------------------
(* Specification of getAttr: it is called once, on a tag written from a     *)
(* list of attributes with different names.                                 *)


AttrNames == {NmRate, NmParRate, NmQualRate, NmPoint, NmAPR}

AttrValues == {<<"5",".","0","0","0">>, <<"6",".","1","2","5">>}

\* the attribute lists of a tag: no name twice
AttrLists ==
    {attrs \in SeqsOf(AttrNames \X AttrValues, 0, MaxAttrs) :
        \A i, j \in 1..Len(attrs) : attrs[i][1] = attrs[j][1] => i = j}

TagOf(attrs) == WriteTag([i \in 1..Len(attrs) |-> <<attrs[i][1], Some(attrs[i][2])>>])

InitAttr ==
    /\ pc = "attr"
    /\ text = <<>>
    /\ ppp = Null
    /\ programs = <<>>
    /\ occupancyType = Null
    /\ prepayPeriod = Null
    /\ targetOption = None
    /\ formData = Null
    /\ result = Null
    /\ response = Null
    /\ OAuthIdle
    /\ \E attrs \in AttrLists : \E attr \in {NmRate, NmPoint, NmParRate} :
          engine = [attrs |-> attrs, tag |-> TagOf(attrs), attr |-> attr]

\* getAttr(tag, attr)
ReadAttr ==
    /\ pc = "attr"
    /\ result' = getAttr(engine.tag, engine.attr)
    /\ pc' = "read"
    /\ UNCHANGED oauthVars
    /\ UNCHANGED <<text, ppp, programs, occupancyType, prepayPeriod, targetOption,
                   formData, engine, response>>

NextAttr == ReadAttr

SpecAttr == InitAttr /\ [][NextAttr]_vars

\* the value of the attribute of that very name, <<>> without one
RECURSIVE ExactValue(_, _)
ExactValue(attrs, attr) ==
    IF attrs = <<>> THEN <<>>
    ELSE IF Head(attrs)[1] = attr THEN Head(attrs)[2]
    ELSE ExactValue(Tail(attrs), attr)

\* C23: getAttr returns the value of the attribute whose name is exactly the
\* requested one, and the empty string when the tag has no attribute of that
\* name, also when another attribute's name ends with it
C23_Original ==
    pc = "read" => result = ExactValue(engine.attrs, engine.attr)

----------------------------------------------------------------------------
(* Claims on the fields parseSOAPResponse defaults *)

\* one document is parsed whose program and rate option carry or lack the
\* attributes that have a default
InitFields ==
    /\ pc = "parse"
    /\ text = <<>>
    /\ ppp = Null
    /\ programs = <<>>
    /\ occupancyType = Null
    /\ prepayPeriod = Null
    /\ targetOption = None
    /\ formData = Null
    /\ result = None
    /\ response = Null
    /\ OAuthIdle
    /\ \E term \in TermFields, lockDays \in LockDaysFields, parRate \in ParRateFields :
       \E rate \in RateFields, payment \in PaymentFields, qualRate \in QualRates :
          engine = FieldsDoc([term |-> term, lockDays |-> lockDays, parRate |-> parRate,
                              rate |-> rate, payment |-> payment, qualRate |-> qualRate])

SpecFields == InitFields /\ [][NextParse]_vars

FieldsRead == ParseDone

\* C22: a missing or unparsable numeric attribute of a rate option or of a
\* program is read as 0, a missing or unparsable Term as 360, missing lock
\* days as 30, a Payment with grouping commas as its number, a rate option
\* without template and without embedded elements has no adjustments, and
\* the program is retained
C22_Original ==
    FieldsRead =>
        /\ Len(result.read.programs) = 1
        /\ Len(result.parsed.programs) = 1
        /\ LET p == result.read.programs[1]
               o == p.rateOptions[1]
           IN /\ p.term = engine.fields.term.value
              /\ p.lockDays = engine.fields.lockDays.value
              /\ p.parRate = engine.fields.parRate.value
              /\ p.parPoints = 0
              /\ Len(p.rateOptions) = 1
              /\ o.rate = engine.fields.rate.value
              /\ o.points = 0
              /\ o.apr = 0
              /\ o.payment = engine.fields.payment.value
              /\ o.adjustments = <<>>
              /\ result.parsed.programs[1].rate = o.rate

\* the <Adjustment> elements that stand in the program body itself, outside
\* every rate option
DirectAdjustments(progBody) ==
    LET outside == SelectSeq(progBody, IsAdjustmentEl)
    IN [k \in 1..Len(outside) |-> ProgramAdjustment(outside[k].attrs)]

\* C26: the program-level adjustments of a program are the <Adjustment>
\* elements directly in its body; an element embedded in a rate option is in
\* that rate option's adjustments when the fallback applies, and never in the
\* program-level list
C26_Original ==
    ParseDone =>
        \A n \in 1..Len(engine.programs) :
            LET p == result.read.programs[n]
                options == SelectSeq(engine.programs[n].body, IsRateOptionEl)
            IN /\ Len(p.adjustments) = Len(DirectAdjustments(engine.programs[n].body))
               /\ \A k \in 1..Len(p.adjustments) :
                      p.adjustments[k] = DirectAdjustments(engine.programs[n].body)[k]
               /\ \A k \in 1..Len(options) :
                      (getAttr(options[k].attrs, NmTemplateId) = <<>>)
                          => Len(p.rateOptions[k].adjustments) = Len(options[k].body)

----------------------------------------------------------------------------
(* Claim on the periods that are not zero *)

\* descriptions that name a period of sixty months or of ten years
NonZeroPeriodTexts == {Desc60MOPPP, Desc10YRPPP, Desc10YRPPPTight}

\* C24: only a period of length zero is no penalty; "60MO PPP", "10 YR PPP"
\* and "10YR PPP" are penalty-bearing for the handler's filter and for the
\* target selection
C24_Original ==
    (pc = "classified" /\ text \in NonZeroPeriodTexts) =>
        /\ ppp.handler
        /\ ppp.logic

----------------------------------------------------------------------------
(* Specification of the two selectors side by side: the form recomputes the *)
(* target from the programs of the result and the occupancy of the form.    *)

InitBoth ==
    /\ pc = "display"
    /\ TargetInputs

SelectBoth ==
    /\ pc = "display"
    /\ targetOption' = [logic |-> getTargetPricing(programs, occupancyType, prepayPeriod),
                        form |-> formGetTargetPricing(programs, occupancyType)]
    /\ pc' = "displayed"
    /\ UNCHANGED oauthVars
    /\ UNCHANGED <<text, ppp, programs, occupancyType, prepayPeriod,
                   formData, engine, result, response>>

NextBoth == SelectBoth

SpecBoth == InitBoth /\ [][NextBoth]_vars

\* C25: for every program list, occupancy type and prepay period the form's
\* getTargetPricing returns the target, or the absence of a target, that
\* PricingLogic's getTargetPricing returns
C25_Original ==
    pc = "displayed" => targetOption.form = targetOption.logic

----------------------------------------------------------------------------
(* The form component: formData, result, error and isLoading, with the      *)
(* pricing request in flight.  pc is "form" when isLoading is false and     *)
(* "loading" while the request is awaited; engine holds the body of the     *)
(* request in flight, response is the error shown.  A result carries the    *)
(* form data it was priced for.                                             *)

FormFieldNames == {"documentationType", "occupancyType", "grossRent", "creditScore"}

FieldValues(field) ==
    CASE field = "documentationType" -> {"fullDoc", "dscr"}
      [] field = "occupancyType" -> {"primary", "investment"}
      [] field = "grossRent" -> {"5,000", ""}
      [] field = "creditScore" -> {"740", "500"}

DEFAULT_FORM_DATA ==
    [documentationType |-> "fullDoc", occupancyType |-> "primary",
     grossRent |-> "5,000", creditScore |-> "740"]

\* Number(value.replace(/,/g, '')) || 0 on the values of the form
FieldNumber(value) ==
    CASE value = "5,000" -> 5000
      [] value = "740" -> 740
      [] value = "500" -> 500
      [] OTHER -> 0

\* mutant of UpdatedFormData: the occupancy is left as it is
UpdatedFormData_KeepsOccupancy(prev, field, value) == [prev EXCEPT ![field] = value]

\* the updater handleInputChange passes to setFormData
UpdatedFormData(prev, field, value) ==
    LET updated == [prev EXCEPT ![field] = value]
    IN IF field = "documentationType" /\ value = "dscr"
       THEN [updated EXCEPT !.occupancyType = "investment"]
       ELSE updated

\* validateForm: no entry in errors
validateForm(fd) ==
    /\ fd.occupancyType # ""
    /\ fd.creditScore # ""
    /\ ~ (fd.documentationType = "dscr" /\ fd.occupancyType # "investment")
    /\ ~ (FieldNumber(fd.creditScore) < 620 \/ FieldNumber(fd.creditScore) > 999)

\* validateFormBeforeSubmit(formData).isValid
validateFormBeforeSubmit(fd) ==
    /\ ~ (FieldNumber(fd.creditScore) < 620 \/ FieldNumber(fd.creditScore) > 999)
    /\ fd.occupancyType # ""
    /\ (fd.documentationType = "dscr"
           => /\ fd.occupancyType = "investment"
              /\ FieldNumber(fd.grossRent) > 0)

FormRest ==
    /\ text = <<>>
    /\ ppp = Null
    /\ programs = <<>>
    /\ occupancyType = Null
    /\ prepayPeriod = Null
    /\ targetOption = None
    /\ OAuthIdle

InitForm ==
    /\ pc = "form"
    /\ formData = DEFAULT_FORM_DATA
    /\ result = None
    /\ response = Null
    /\ engine = None
    /\ FormRest

formRestVars == <<text, ppp, programs, occupancyType, prepayPeriod, targetOption>>

\* handleInputChange(field, value): the inputs stay enabled while loading
HandleInputChange(field, value) ==
    /\ value # formData[field]
    /\ result' = None
    /\ formData' = UpdatedFormData(formData, field, value)
    /\ response' = Null
    /\ UNCHANGED <<pc, engine>>
    /\ UNCHANGED formRestVars
    /\ UNCHANGED oauthVars

\* handleSubmit up to the await of fetch; the button is disabled while loading
HandleSubmit ==
    /\ pc = "form"
    /\ IF ~ validateForm(formData)
       THEN /\ response' = "Please fix the errors above"
            /\ UNCHANGED <<pc, result, engine>>
       ELSE IF ~ validateFormBeforeSubmit(formData)
       THEN /\ response' = "Gross Rent is required for DSCR loans"
            /\ UNCHANGED <<pc, result, engine>>
       ELSE /\ pc' = "loading"
            /\ response' = Null
            /\ result' = None
            /\ engine' = Some(formData)
    /\ UNCHANGED formData
    /\ UNCHANGED formRestVars
    /\ UNCHANGED oauthVars

\* handleSubmit after the await: data.success, setResult(sanitizedResult)
PricingResolved ==
    /\ pc = "loading"
    /\ result' = Some([pricedFor |-> engine[1]])
    /\ pc' = "form"
    /\ engine' = None
    /\ UNCHANGED <<formData, response>>
    /\ UNCHANGED formRestVars
    /\ UNCHANGED oauthVars

\* handleSubmit after the await: the catch branch
PricingRejected ==
    /\ pc = "loading"
    /\ response' = "Pricing request failed"
    /\ pc' = "form"
    /\ engine' = None
    /\ UNCHANGED <<formData, result>>
    /\ UNCHANGED formRestVars
    /\ UNCHANGED oauthVars

NextForm ==
    \/ \E field \in FormFieldNames : \E value \in FieldValues(field) :
           HandleInputChange(field, value)
    \/ HandleSubmit
    \/ PricingResolved
    \/ PricingRejected

SpecForm == InitForm /\ [][NextForm]_vars

IsDscr(fd) == fd.documentationType = "dscr"
IsInvestment(fd) == fd.occupancyType = "investment"

\* C27: a request with documentation type 'dscr' has occupancy type
\* 'investment'; choosing DSCR sets the occupancy to investment, and while the
\* form holds DSCR with another occupancy no request is sent
C27_DscrOnlyInvestment ==
    [][/\ (engine' # None /\ IsDscr(engine'[1])) => IsInvestment(engine'[1])
       /\ (IsDscr(formData') /\ ~ IsDscr(formData)) => IsInvestment(formData')
       /\ (IsDscr(formData) /\ ~ IsInvestment(formData) /\ engine' # None)
             => engine' = engine]_vars

\* a DSCR request for an investment property is in flight
C27_Witness ==
    /\ pc = "loading"
    /\ IsDscr(engine[1])
    /\ IsInvestment(engine[1])

\* DSCR with a primary home after a change of occupancy: submission refused
C27_BlockedWitness ==
    /\ pc = "form"
    /\ IsDscr(formData)
    /\ ~ IsInvestment(formData)
    /\ response = "Please fix the errors above"

\* C28: whenever result is not null the form data is the form data that was
\* submitted for it, under every interleaving of edits with the request in
\* flight and its response
C28_Original ==
    result # None => result[1].pricedFor = formData

----------------------------------------------------------------------------
(* Claims on the parsed result after the filter *)

\* the parsed result as the handler leaves it
Handled == result[1]

\* a rate option without its adjustments, which the sanitizer may rewrite
OptionOf(ro) == [ro EXCEPT !.adjustments = <<>>]

SameOptions(p, q) ==
    /\ Len(p.rateOptions) = Len(q.rateOptions)
    /\ \A k \in 1..Len(p.rateOptions) : OptionOf(p.rateOptions[k]) = OptionOf(q.rateOptions[k])

\* C29 as stated: after the filter every program of the parsed list has
\* exactly the rate options it was parsed with
C29_Original ==
    (Responded /\ result # None) =>
        \A i \in 1..Len(Parsed.programs) :
            SameOptions(Handled.programs[i], Parsed.programs[i])

\* C29: the filter assigns the rate options of the programs it keeps and of
\* no other: every program it does not keep has exactly the rate options it
\* was parsed with, so that the 'No programs found' list, given when no
\* program is kept, reports the count and the first description from before
\* the filter
C29_RejectedIntact ==
    (Responded /\ result # None) =>
        LET before == Parsed.programs
            kept == KeptByFilter
        IN /\ Len(Handled.programs) = Len(before)
           /\ \A i \in 1..Len(before) :
                 /\ i \notin kept => SameOptions(Handled.programs[i], before[i])
                 /\ kept = {} => response.allPrograms[i] = Diagnostic(before[i])

\* a program is kept without its penalty options next to a program that is
\* refused with its penalty options in place
C29_Witness ==
    /\ Responded
    /\ result # None
    /\ response.success
    /\ \E i \in KeptByFilter :
          Len(Handled.programs[i].rateOptions) < Len(Parsed.programs[i].rateOptions)
    /\ \E i \in 1..Len(Parsed.programs) :
          /\ i \notin KeptByFilter
          /\ Parsed.programs[i].status = "Eligible"
          /\ \E k \in 1..Len(Handled.programs[i].rateOptions) :
                hasPPP(Handled.programs[i].rateOptions[k].description)

\* no program is kept, and a refused program with a penalty in its name has
\* a penalty option listed as its first description
C29_NoProgramsWitness ==
    /\ Responded
    /\ result # None
    /\ response.error = NoProgramsMessage
    /\ \E i \in 1..Len(Parsed.programs) :
          /\ Parsed.programs[i].status = "Eligible"
          /\ hasPPP(Parsed.programs[i].programName)
          /\ Len(Parsed.programs[i].rateOptions) > 1
          /\ hasPPP(response.allPrograms[i].sampleRateDesc)
          /\ \E k \in 1..Len(Parsed.programs[i].rateOptions) :
                ~ hasPPP(Parsed.programs[i].rateOptions[k].description)

\* the top-level quote of program p is the quote of its rate option o
QuoteOf(p, o) ==
    /\ p.rate = o.rate
    /\ p.apr = o.apr
    /\ p.points = o.points
    /\ p.payment = o.payment
    /\ p.description = o.description

\* C30: in a successful response the quote of every program is the quote of
\* a rate option in its list after the filter, the headline rate, apr,
\* points and program name are those of the first program, and no program
\* of the response has a lower rate than the first
C30_RepresentativeQuote ==
    Succeeded =>
        LET data == response.data[1] IN
        /\ \A i \in 1..Len(data.programs) :
              /\ \E k \in 1..Len(data.programs[i].rateOptions) :
                    QuoteOf(data.programs[i], data.programs[i].rateOptions[k])
              /\ data.programs[1].rate <= data.programs[i].rate
        /\ data.rate = data.programs[1].rate
        /\ data.apr = data.programs[1].apr
        /\ data.points = data.programs[1].points
        /\ data.programName = data.programs[1].programName

\* two programs of different rates are returned for a primary or secondary
\* home, one of them without a penalty option it was parsed with
C30_Witness ==
    /\ Succeeded
    /\ Scenario.occupancyType # "investment"
    /\ Len(response.data[1].programs) = 2
    /\ response.data[1].programs[1].rate < response.data[1].programs[2].rate
    /\ \E i \in KeptByFilter :
          Len(Handled.programs[i].rateOptions) < Len(Parsed.programs[i].rateOptions)

\* the programs come back in another order than the engine wrote them
C30_InvestmentWitness ==
    /\ Succeeded
    /\ Scenario.occupancyType = "investment"
    /\ Len(response.data[1].programs) >= 2
    /\ response.data[1].programs[1].element > response.data[1].programs[2].element
    /\ response.data[1].programs[1].rate < response.data[1].programs[2].rate

=============================================================================
